---- MODULE Spec2Model ----
(***************************************************************************)
(* A model of OMAP-Radar.py (Offline Mesh Analysis Plotter): the node      *)
(* store (nodes, origin, upsert_node), the Meshtastic ingestion handlers,  *)
(* the render loop's passes over the node map, and the link topology       *)
(* builders (build_mst_edges, build_knn_edges, build_links).               *)
(*                                                                         *)
(* Python objects are modelled by reference.  The global `nodes` is a dict *)
(* (insertion ordered) from node id to a record OBJECT; upsert_node        *)
(* mutates the object it fetched in place.  An object is named by the id   *)
(* it was created for and the context (thread) that created it: a context  *)
(* creates a fresh record for an id only while the id is not a key of      *)
(* `nodes`, so <<id, context>> names at most one live object.              *)
(***************************************************************************)
EXTENDS Integers, Sequences, FiniteSets, TLC

\* ------------------------------------------------------------------ bounds
\* Timestamps are 400 * k for k in 1..MaxTime (seconds): one step is older
\* than STALE_SEC, so ages 0 (fresh) and >= 400 (stale) both occur.
MaxTime == 2
\* upsert_node calls the producer threads make in one run of the threaded
\* specifications.
MaxCalls == 2
\* Points in a list handed to the link builders: lists of 0..MaxPts points.
MaxPts == 4
\* Input events handled, and ticks run, by the render loop in the view's
\* specification.
MaxEvents == 3
MaxTicks == 2
\* Zoom inputs among the events (zoom keys and wheel notches).
MaxZoom == 2
\* Entries the model's queue q holds at a time.
MaxQueue == 2

\* ------------------------------------------------------ program constants
STALE_SEC == 300
K_NEIGHBORS == 2
LINK_MAX_METERS == 60000
LINK_MODE_CYCLE == <<"mst_knn", "mst", "knn">>
DEFAULT_LINK_MODE == "mst_knn"

\* ------------------------------------------------------------ value domains
\* Python's None for a numeric argument or field (lat, lon, ts, last).
None == -1
\* Python's None for the name argument (a str otherwise).
NoName == "(None)"

Ids == {"A", "B"}
\* str() of a node number, and of a `from` that is a dict.
NumStr == "7"
DictStr == "{'longName': 'n1'}"
\* The keys `nodes` can get: the ids, what on_rx and on_node_updated derive
\* from a node number or a dict, and on_rx's fallback "unknown".
Keys == Ids \cup {NumStr, DictStr, "unknown"}
\* Contexts that run upsert_node: the Meshtastic reader thread that delivers
\* the pubsub callbacks (on_rx, on_node_updated) and iface_thread's poll loop.
Producers == {"rx", "poll"}

Times == {400 * k : k \in 1..MaxTime}
\* Two fixes <<lat, lon>> that differ in both coordinates.
Fixes == {<<1, 1>>, <<2, 2>>}
GivenNames == {"n1"}

\* Truthiness as Python's `if name:` and `ts or now()` take it.
TruthyStr(s) == s /= NoName /\ s /= ""
TruthyNum(x) == x /= None /\ x /= 0

\* ------------------------------------------------------------------- state
VARIABLES
    nodes,      \* the dict `nodes`: a sequence of [id, by] in insertion order;
                \* the value of key id is the object heap[id][by]
    heap,       \* heap[id][ctx]: the record object created for id by ctx
    origin,     \* the dict `origin`: [lat, lon, set]
    clock,      \* time.time()
    fr,         \* fr[ctx]: the upsert_node call of context ctx: where it
                \* stands (pc), its arguments, and `by`, naming the object
                \* its local variable rec refers to
    call,       \* history: the shape of the last completed upsert_node call
    ncalls,     \* history: upsert_node calls started by the producer threads
    fixed,      \* history: the ids for which a call carrying a fix returned
    hide_stale, \* the global hide_stale (key F)
    cons,       \* the render loop (main thread): where its pass over `nodes`
                \* stands, its iterator, and the fields read of the record d
    legit,      \* history: the values the record being read held between
                \* updates since the render loop started to read it
    torn,       \* history: a record was read in a state no update left it in
    q,          \* the queue q: the entries put and not yet drained
    points_m,   \* main's points_m: the projected points of the tick, in km
    link_mode,  \* the global link_mode (key E)
    edges,      \* main's edges: what build_links returned last
    drawn,      \* history: the link mode `edges` was built in
    knn_k,      \* the argument k of a direct build_knn_edges call
    knn_max,    \* the argument max_m of that call, in km
    zoom_mode,  \* the global zoom_mode: "fit" or "manual"
    zoom_k,     \* the global zoom_k, a rational <<n, d>>
    pan_x_m,    \* the globals pan_x_m, pan_y_m (rationals, metres)
    pan_y_m,
    pan_vx,     \* the globals pan_vx, pan_vy (rationals, metres per second)
    pan_vy,
    ui,         \* main's locals of the input handling: where the tick
                \* stands (pc), keys_held, dragging, drag_start, pan_start,
                \* far, scale, side_scroll, the posted WHEEL_EVT/PAN_EVT
                \* events; history: n, z, t, last, was, and got,
                \* the zoom and reset commands among the events line 349
                \* returned in this tick, in the order received
    plottable,  \* main's local plottable after line 435
    proj        \* one call of latlon_to_xy_m and of xy_m_to_latlon on its
                \* result: the arguments and what came back

\* What upsert_node never touches.
aside == <<hide_stale, cons, torn>>
\* What neither upsert_node nor the passes over `nodes` touch.
rest == <<q, points_m, link_mode, edges, drawn>>
\* What only the specifications of single functions and of the view use.
more == <<knn_k, knn_max, zoom_mode, zoom_k, pan_x_m, pan_y_m, pan_vx, pan_vy, ui,
         plottable, proj>>
vars == <<nodes, heap, origin, clock, fr, call, ncalls, fixed, hide_stale, cons,
          legit, torn, q, points_m, link_mode, edges, drawn, more>>

\* A slot of the heap that holds no object.
NoObj == [name |-> NoName, lat |-> None, lon |-> None, last |-> None]

\* No call in progress.
NoFrame == [pc |-> "idle", nid |-> "", name |-> NoName, lat |-> None,
            lon |-> None, ts |-> None, by |-> "", pre |-> NoObj]

\* The render loop between two passes over `nodes`.
NoPass == [pc |-> "tick", pass |-> "", i |-> 0, n |-> 0, nid |-> "", by |-> "",
           now |-> None, name |-> NoName, lat |-> None, lon |-> None,
           last |-> None]

NoCall == [op |-> "none", nid |-> "", hasLat |-> FALSE, hasLon |-> FALSE,
           hadRec |-> FALSE, hadFix |-> FALSE, noId |-> FALSE]

\* ------------------------------------------------------------ dict helpers
DictHas(nd, nid) == \E i \in 1..Len(nd) : nd[i].id = nid
DictIdx(nd, nid) == CHOOSE i \in 1..Len(nd) : nd[i].id = nid
DictGet(nd, nid) == nd[DictIdx(nd, nid)].by
DictKeys(nd) == {nd[i].id : i \in 1..Len(nd)}
\* A store that keeps the last key only.
DictPut_only(nd, nid, by) == <<[id |-> nid, by |-> by]>>

\* nodes[nid] = rec: a new key is appended, an existing key keeps its place.
DictPut(nd, nid, by) ==
    IF DictHas(nd, nid)
    THEN [nd EXCEPT ![DictIdx(nd, nid)].by = by]
    ELSE Append(nd, [id |-> nid, by |-> by])

\* The record stored under nid (the object nodes[nid] refers to).
Rec(nd, hp, nid) == hp[nid][DictGet(nd, nid)]
HasFix(r) == r.lat /= None /\ r.lon /= None

\* An object nobody refers to is reclaimed; `held` are the references that
\* contexts hold in local variables.
Collect(nd, hp, held) ==
    [i \in Keys |-> [c \in Producers |->
        IF (DictHas(nd, i) /\ DictGet(nd, i) = c) \/ <<i, c>> \in held
        THEN hp[i][c] ELSE NoObj]]

\* ------------------------------------------------------------- upsert_node
\* float(x): the numbers of the model convert to themselves; Bad stands for
\* a value float() rejects with ValueError/TypeError (a non-numeric string,
\* a dict).
Bad == -2
Floatable(x) == x /= Bad
to_float(x) == IF Floatable(x) THEN x ELSE None

\* line 129: rec = nodes.get(nid) or {...}: which object rec is.
upsert_ref(nd, ctx, nid) == IF DictHas(nd, nid) THEN DictGet(nd, nid) ELSE ctx

\* A replace instead of a merge: every call starts from a fresh record.
upsert_get_replace(nd, hp, ctx, nid, nw) ==
    [hp EXCEPT ![nid][upsert_ref(nd, ctx, nid)] =
         [name |-> nid, lat |-> None, lon |-> None, last |-> nw]]

\* line 129: a key that is absent gets a fresh record object (not yet in the
\* dict); a present key yields the stored object itself.
upsert_get(nd, hp, ctx, nid, nw) ==
    IF DictHas(nd, nid)
    THEN hp
    ELSE [hp EXCEPT ![nid][ctx] =
              [name |-> nid, lat |-> None, lon |-> None, last |-> nw]]

\* The name stored without the `if name:` test.
upsert_name_always(hp, nid, by, name) == [hp EXCEPT ![nid][by].name = name]

\* line 130: if name: rec["name"] = name
upsert_name(hp, nid, by, name) ==
    IF TruthyStr(name) THEN [hp EXCEPT ![nid][by].name = name] ELSE hp

\* line 131: rec["last"] = float(ts or now())
upsert_last(hp, nid, by, ts, nw) ==
    [hp EXCEPT ![nid][by].last = to_float(IF TruthyNum(ts) THEN ts ELSE nw)]

\* line 132: if lat is not None and lon is not None
upsert_has_fix(lat, lon) == lat /= None /\ lon /= None

\* line 133: the two stores of rec["lat"], rec["lon"] = float(lat), float(lon)
upsert_lat(hp, nid, by, lat) == [hp EXCEPT ![nid][by].lat = to_float(lat)]
upsert_lon(hp, nid, by, lon) == [hp EXCEPT ![nid][by].lon = to_float(lon)]

\* The origin written without the `not origin["set"]` test.
set_origin_always(org, lat, lon) ==
    IF lat /= None /\ lon /= None
    THEN [lat |-> to_float(lat), lon |-> to_float(lon), set |-> TRUE]
    ELSE org

\* line 125: the test of set_origin_if_empty
origin_empty(org, lat, lon) == lat /= None /\ lon /= None /\ ~org.set
\* line 126: origin.update({...}), one dict.update call
origin_update(lat, lon) == [lat |-> to_float(lat), lon |-> to_float(lon), set |-> TRUE]

\* lines 124-126
set_origin_if_empty(org, lat, lon) ==
    IF origin_empty(org, lat, lon) THEN origin_update(lat, lon) ELSE org

\* lines 128-135 run without interruption.  float() of a rejected value
\* raises at line 133 before either store, after lines 130-131 have already
\* written to the fetched object; line 135 is then not reached.
upsert_result(nd, hp, org, ctx, nid, name, lat, lon, ts, nw) ==
    LET by == upsert_ref(nd, ctx, nid)
        h0 == upsert_get(nd, hp, ctx, nid, nw)
        h1 == upsert_name(h0, nid, by, name)
        h2 == upsert_last(h1, nid, by, ts, nw)
    IN  IF ~upsert_has_fix(lat, lon)
        THEN [nodes |-> DictPut(nd, nid, by), heap |-> h2, origin |-> org,
              raised |-> FALSE]
        ELSE IF ~Floatable(lat) \/ ~Floatable(lon)
        THEN [nodes |-> nd, heap |-> Collect(nd, h2, {}), origin |-> org,
              raised |-> TRUE]
        ELSE [nodes |-> DictPut(nd, nid, by),
              heap |-> upsert_lon(upsert_lat(h2, nid, by, lat), nid, by, lon),
              origin |-> set_origin_if_empty(org, lat, lon),
              raised |-> FALSE]

\* --------------------------------------------------------------- numbers
\* The floats of the view and of the projection are exact rationals
\* <<n, d>> with d > 0, in lowest terms.
RECURSIVE Gcd(_, _)
Gcd(a, b) ==
    IF a < 0 THEN Gcd(-a, b) ELSE IF b < 0 THEN Gcd(a, -b)
    ELSE IF b = 0 THEN a ELSE Gcd(b, a % b)

\* n / d
Rat(n, d) ==
    IF d < 0 THEN <<(-n) \div Gcd(n, d), (-d) \div Gcd(n, d)>>
    ELSE <<n \div Gcd(n, d), d \div Gcd(n, d)>>

\* a + b
RAdd(a, b) ==
    Rat(a[1] * (b[2] \div Gcd(a[2], b[2])) + b[1] * (a[2] \div Gcd(a[2], b[2])),
        (a[2] \div Gcd(a[2], b[2])) * b[2])

\* a - b
RSub(a, b) == RAdd(a, <<-b[1], b[2]>>)

\* a * b
RMul(a, b) ==
    Rat((a[1] \div Gcd(a[1], b[2])) * (b[1] \div Gcd(b[1], a[2])),
        (a[2] \div Gcd(b[1], a[2])) * (b[2] \div Gcd(a[1], b[2])))

\* a / b, b not zero
RDiv(a, b) == RMul(a, Rat(b[2], b[1]))

\* a < b
RLess(a, b) == RSub(a, b)[1] < 0

\* int(a): towards zero
RInt(a) == IF a[1] >= 0 THEN a[1] \div a[2] ELSE -((-a[1]) \div a[2])

\* ------------------------------------------------------- the view's state
WASD_ACCEL == 28400
WASD_FRICTION == 7
FONT_SMALL == 17
\* ZOOM_STEP = 1.15
ZOOM_STEP == <<23, 20>>

\* Lines 92-97 and 338-343; far is the farthest plottable point of the
\* ticks to come (200 when there is none, line 439).  scale is assigned at
\* line 444, before its first use.  n counts the input events handled, z
\* the zoom inputs among them and t the ticks; last names the handler that ran last, and was is the view
\* before the last KEYDOWN.
ViewInit(far) ==
    /\ zoom_mode = "fit"
    /\ zoom_k = <<1, 1>>
    /\ pan_x_m = <<0, 1>>
    /\ pan_y_m = <<0, 1>>
    /\ pan_vx = <<0, 1>>
    /\ pan_vy = <<0, 1>>
    /\ ui = [pc |-> "events", keys_held |-> {}, dragging |-> FALSE,
             drag_start |-> None, pan_start |-> <<<<0, 1>>, <<0, 1>>>>,
             far |-> far, scale |-> <<0, 1>>, side_scroll |-> 0,
             posted |-> << >>, n |-> 0, z |-> 0, t |-> 0, last |-> "",
             was |-> << >>, got |-> << >>]

\* ------------------------------------------------------------ projection
\* No call of latlon_to_xy_m yet.
NoProj == [pc |-> "idle", args |-> <<None, None, None, None>>,
           xy |-> << >>, back |-> << >>]

\* math.cos(math.radians(lat0)) for the whole degrees the model uses: exact
\* at 0 and 60 degrees, to three or four decimal places at 1, 2 and 33
\* degrees; at 90 degrees the double is 6.1e-17 and not 0, a small positive
\* number here.
cos_deg(lat0) ==
    CASE lat0 = 0 -> <<1, 1>>
      [] lat0 \in {90, -90} -> <<1, 10^9>>
      [] lat0 \in {60, -60} -> <<1, 2>>
      [] lat0 = 1 -> Rat(9998, 10000)
      [] lat0 \in {2, -2} -> Rat(9994, 10000)
      [] lat0 \in {33, -33} -> Rat(839, 1000)

\* xy_m_to_latlon without the cosine of the origin's latitude
xy_m_to_latlon_flat(xm, ym, lat0, lon0) ==
    <<RAdd(<<lat0, 1>>, RDiv(ym, <<111320, 1>>)),
      RAdd(<<lon0, 1>>, RDiv(xm, <<111320, 1>>))>>

\* lines 111-116; the result None is << >>, a result is <<x, y>> in metres
latlon_to_xy_m(lat, lon, lat0, lon0) ==
    IF None \in {lat, lon, lat0, lon0} THEN << >>
    ELSE <<RMul(RMul(<<lon - lon0, 1>>, cos_deg(lat0)), <<111320, 1>>),
           RMul(<<lat - lat0, 1>>, <<111320, 1>>)>>

\* lines 118-122
xy_m_to_latlon(xm, ym, lat0, lon0) ==
    <<RAdd(<<lat0, 1>>, RDiv(ym, <<111320, 1>>)),
      RAdd(<<lon0, 1>>, RDiv(xm, RMul(<<111320, 1>>, cos_deg(lat0))))>>

\* ------------------------------------------------- the store, call by call
NameArgs == {NoName, ""} \cup GivenNames
\* <<lat, lon>> of a call: no position, a latitude alone, a longitude alone,
\* or a fix.
PosArgs == {<<None, None>>, <<1, None>>, <<None, 1>>} \cup Fixes
TsArgs == {None, 0} \cup Times

EmptyHeap == [i \in Keys |-> [c \in Producers |-> NoObj]]
NoOrigin == [lat |-> None, lon |-> None, set |-> FALSE]

Init ==
    /\ nodes = << >>
    /\ heap = EmptyHeap
    /\ origin = NoOrigin
    /\ clock = 400
    /\ fr = [c \in Producers |-> NoFrame]
    /\ call = NoCall
    /\ ncalls = 0
    /\ fixed = {}
    /\ hide_stale = TRUE
    /\ cons = NoPass
    /\ legit = {}
    /\ torn = FALSE
    /\ q = << >>
    /\ points_m = << >>
    /\ link_mode = DEFAULT_LINK_MODE
    /\ edges = << >>
    /\ drawn = ""
    /\ knn_k = K_NEIGHBORS
    /\ knn_max = LINK_MAX_METERS \div 1000
    /\ ViewInit(200)
    /\ plottable = << >>
    /\ proj = NoProj

\* A caller in context ctx calls upsert_node(nid, name, lat, lon, ts): the
\* arguments are bound.
Invoke(ctx, nid, name, lat, lon, ts) ==
    /\ fr[ctx].pc = "idle"
    /\ fr' = [fr EXCEPT ![ctx] = [pc |-> "called", nid |-> nid, name |-> name,
                                  lat |-> lat, lon |-> lon, ts |-> ts, by |-> "",
                                  pre |-> NoObj]]
    /\ call' = NoCall
    /\ UNCHANGED <<nodes, heap, origin, clock, ncalls, fixed, legit, aside, rest,
                   more>>

\* What a completed call leaves in the history variable.
Shape(f) ==
    [op |-> "upsert_node", nid |-> f.nid,
     hasLat |-> f.lat /= None, hasLon |-> f.lon /= None,
     hadRec |-> DictHas(nodes, f.nid),
     hadFix |-> DictHas(nodes, f.nid) /\ HasFix(Rec(nodes, heap, f.nid)),
     noId |-> FALSE]

\* The body of upsert_node, lines 129-135, run as one step.
upsert_node(ctx) ==
    /\ fr[ctx].pc = "called"
    /\ \E r \in {upsert_result(nodes, heap, origin, ctx, fr[ctx].nid, fr[ctx].name,
                               fr[ctx].lat, fr[ctx].lon, fr[ctx].ts, clock)} :
        /\ nodes' = r.nodes
        /\ heap' = r.heap
        /\ origin' = r.origin
        /\ fixed' = IF ~r.raised /\ upsert_has_fix(fr[ctx].lat, fr[ctx].lon)
                    THEN fixed \cup {fr[ctx].nid} ELSE fixed
    /\ call' = Shape(fr[ctx])
    /\ fr' = [fr EXCEPT ![ctx] = NoFrame]
    /\ UNCHANGED <<clock, ncalls, legit, aside, rest, more>>

\* time.time() moves on between calls.
AdvanceClock ==
    /\ cons.pc /= "crashed"
    /\ \A c \in Producers : fr[c].pc = "idle"
    /\ clock + 400 \in Times
    /\ clock' = clock + 400
    /\ UNCHANGED <<nodes, heap, origin, fr, call, ncalls, fixed, legit, aside,
                   rest, more>>

Apply ==
    \E nid \in Ids, name \in NameArgs, pos \in PosArgs, ts \in TsArgs :
        Invoke("rx", nid, name, pos[1], pos[2], ts)

Next == Apply \/ upsert_node("rx") \/ AdvanceClock

Spec == Init /\ [][Next]_vars

\* ---------------------------------------------- upsert_node, step by step
\* Two threads run upsert_node with no lock: the Meshtastic reader thread
\* (on_rx, on_node_updated, subscribed at lines 221-222) and iface_thread's
\* poll loop (line 237).  The interpreter may switch threads between any two
\* bytecodes, so each access to the shared dicts is a step of its own.

\* The render loop has not died of an exception (the threads are daemon
\* threads, line 336: they end with the main thread).
Alive == cons.pc /= "crashed"

\* The references that the calls in progress hold in their variable rec.
Held(f) == {<<f[c].nid, f[c].by>> : c \in {x \in Producers : f[x].by /= ""}}
\* The reference the render loop holds in its loop variable d.
HeldBy(c) == IF c.by /= "" THEN {<<c.nid, c.by>>} ELSE {}
\* The render loop is between its first and its last read of a record.
Reading == cons.pc \in {"chk_lon", "use_lat", "use_lon", "f1", "f2"}

\* The record that the call of frame f leaves, had it run alone on record r.
After(r, f) ==
    [name |-> IF TruthyStr(f.name) THEN f.name ELSE r.name,
     lat |-> IF upsert_has_fix(f.lat, f.lon) THEN f.lat ELSE r.lat,
     lon |-> IF upsert_has_fix(f.lat, f.lon) THEN f.lon ELSE r.lon,
     last |-> IF TruthyNum(f.ts) THEN f.ts ELSE clock]

\* The values the object <<nid, by>> holds before and after the updates in
\* progress on it, or its value now when there is none.
Boundary(nid, by) ==
    LET mid == {c \in Producers : /\ fr[c].pc \notin {"idle", "called"}
                                  /\ fr[c].nid = nid /\ fr[c].by = by}
    IN  IF mid = {} THEN {heap[nid][by]}
        ELSE {fr[c].pre : c \in mid} \cup {After(fr[c].pre, fr[c]) : c \in mid}

\* A handler calls upsert_node as lines 184, 186, 203 and 237 do: with a
\* non-empty name (the given one, or the id), a fix or no position, and a
\* timestamp.
ThreadCall(ctx) ==
    /\ Alive
    /\ fr[ctx].pc = "idle"
    /\ ncalls < MaxCalls
    /\ \E nid \in Ids, pos \in {<<None, None>>} \cup Fixes, ts \in Times :
       \E name \in GivenNames \cup {nid} :
         fr' = [fr EXCEPT ![ctx] = [pc |-> "called", nid |-> nid, name |-> name,
                                    lat |-> pos[1], lon |-> pos[2], ts |-> ts,
                                    by |-> "", pre |-> NoObj]]
    /\ ncalls' = ncalls + 1
    /\ call' = NoCall
    /\ UNCHANGED <<nodes, heap, origin, clock, fixed, legit, aside, rest, more>>

\* line 129
upsert_l129(ctx) ==
    /\ fr[ctx].pc = "called"
    /\ \E by \in {upsert_ref(nodes, ctx, fr[ctx].nid)},
          h \in {upsert_get(nodes, heap, ctx, fr[ctx].nid, clock)} :
         /\ heap' = h
         /\ fr' = [fr EXCEPT ![ctx].pc = "l130", ![ctx].by = by,
                             ![ctx].pre = h[fr[ctx].nid][by]]
         /\ legit' = IF Reading /\ cons.nid = fr[ctx].nid /\ cons.by = by
                     THEN legit \cup {After(h[fr[ctx].nid][by], fr[ctx])}
                     ELSE legit
    /\ UNCHANGED <<nodes, origin, clock, call, ncalls, fixed, aside, rest, more>>

\* line 130
upsert_l130(ctx) ==
    /\ fr[ctx].pc = "l130"
    /\ heap' = upsert_name(heap, fr[ctx].nid, fr[ctx].by, fr[ctx].name)
    /\ fr' = [fr EXCEPT ![ctx].pc = "l131"]
    /\ UNCHANGED <<nodes, origin, clock, call, ncalls, fixed, legit, aside, rest,
                   more>>

\* lines 131-132, and the float() calls of line 133, which raise out of
\* upsert_node before anything of the position is stored.
upsert_l131(ctx) ==
    /\ fr[ctx].pc = "l131"
    /\ \E h \in {upsert_last(heap, fr[ctx].nid, fr[ctx].by, fr[ctx].ts, clock)} :
         IF ~upsert_has_fix(fr[ctx].lat, fr[ctx].lon)
         THEN heap' = h /\ fr' = [fr EXCEPT ![ctx].pc = "l135"]
         ELSE IF Floatable(fr[ctx].lat) /\ Floatable(fr[ctx].lon)
         THEN heap' = h /\ fr' = [fr EXCEPT ![ctx].pc = "l133a"]
         ELSE /\ fr' = [fr EXCEPT ![ctx] = NoFrame]
              /\ heap' = Collect(nodes, h, Held(fr') \cup HeldBy(cons))
    /\ UNCHANGED <<nodes, origin, clock, call, ncalls, fixed, legit, aside, rest,
                   more>>

\* line 133, the store of rec["lat"]
upsert_l133a(ctx) ==
    /\ fr[ctx].pc = "l133a"
    /\ heap' = upsert_lat(heap, fr[ctx].nid, fr[ctx].by, fr[ctx].lat)
    /\ fr' = [fr EXCEPT ![ctx].pc = "l133b"]
    /\ UNCHANGED <<nodes, origin, clock, call, ncalls, fixed, legit, aside, rest,
                   more>>

\* line 133, the store of rec["lon"]
upsert_l133b(ctx) ==
    /\ fr[ctx].pc = "l133b"
    /\ heap' = upsert_lon(heap, fr[ctx].nid, fr[ctx].by, fr[ctx].lon)
    /\ fr' = [fr EXCEPT ![ctx].pc = "l125"]
    /\ UNCHANGED <<nodes, origin, clock, call, ncalls, fixed, legit, aside, rest,
                   more>>

\* line 125: set_origin_if_empty reads origin["set"]
upsert_l125(ctx) ==
    /\ fr[ctx].pc = "l125"
    /\ fr' = [fr EXCEPT ![ctx].pc =
                 IF origin_empty(origin, fr[ctx].lat, fr[ctx].lon)
                 THEN "l126" ELSE "l135"]
    /\ UNCHANGED <<nodes, heap, origin, clock, call, ncalls, fixed, legit, aside,
                   rest, more>>

\* line 126: set_origin_if_empty writes origin
upsert_l126(ctx) ==
    /\ fr[ctx].pc = "l126"
    /\ origin' = origin_update(fr[ctx].lat, fr[ctx].lon)
    /\ fr' = [fr EXCEPT ![ctx].pc = "l135"]
    /\ UNCHANGED <<nodes, heap, clock, call, ncalls, fixed, legit, aside, rest, more>>

\* line 135: nodes[nid] = rec, and the call returns
upsert_l135(ctx) ==
    /\ fr[ctx].pc = "l135"
    /\ nodes' = DictPut(nodes, fr[ctx].nid, fr[ctx].by)
    /\ fr' = [fr EXCEPT ![ctx] = NoFrame]
    /\ heap' = Collect(nodes', heap, Held(fr') \cup HeldBy(cons))
    /\ fixed' = IF upsert_has_fix(fr[ctx].lat, fr[ctx].lon)
                THEN fixed \cup {fr[ctx].nid} ELSE fixed
    /\ call' = Shape(fr[ctx])
    /\ UNCHANGED <<origin, clock, ncalls, legit, aside, rest, more>>

UpsertStep(ctx) ==
    \/ upsert_l129(ctx) \/ upsert_l130(ctx) \/ upsert_l131(ctx)
    \/ upsert_l133a(ctx) \/ upsert_l133b(ctx)
    \/ upsert_l125(ctx) \/ upsert_l126(ctx) \/ upsert_l135(ctx)

\* The two producer threads alone.
NextWW == \E ctx \in Producers : ThreadCall(ctx) \/ UpsertStep(ctx)

SpecWW == Init /\ [][NextWW]_vars

\* ------------------------------------------- the render loop, step by step
\* Each tick of main's `while True` passes three times over `nodes`, with no
\* lock: lines 425-434 build plottable, lines 628-633 mapped_rows and lines
\* 645-651 all_rows.  Each read of a field of the record d is a step of its
\* own.  The lists themselves are local to the tick and are not kept here.


\* line 357: key F
KeyF ==
    /\ cons.pc = "tick"
    /\ hide_stale' = ~hide_stale
    /\ UNCHANGED <<nodes, heap, origin, clock, fr, call, ncalls, fixed, cons,
                   legit, torn, rest, more>>

\* line 415: _now = now(), and on to the first pass
cons_tick ==
    /\ cons.pc = "tick"
    /\ cons' = [NoPass EXCEPT !.pc = "begin", !.pass = "plot", !.now = clock]
    /\ UNCHANGED <<nodes, heap, origin, clock, fr, call, ncalls, fixed,
                   hide_stale, legit, torn, rest, more>>

NextPass(pass) ==
    IF pass = "plot" THEN "mapped" ELSE IF pass = "mapped" THEN "all" ELSE ""
\* The render loop once a pass is over: the next pass, or the next tick.
AfterPass(c) ==
    IF NextPass(c.pass) = "" THEN NoPass
    ELSE [NoPass EXCEPT !.pc = "begin", !.pass = NextPass(c.pass), !.now = c.now]

\* lines 426-428, 626-629, 645: a pass starts.  The first two passes are
\* skipped while origin["set"] is false; iterating the dict view notes the
\* dict's size.
cons_begin ==
    /\ cons.pc = "begin"
    /\ cons' = IF cons.pass /= "all" /\ ~origin.set
               THEN AfterPass(cons)
               ELSE [cons EXCEPT !.pc = "next", !.i = 0, !.n = Len(nodes),
                                 !.now = IF cons.pass = "mapped" THEN clock ELSE @]
    /\ UNCHANGED <<nodes, heap, origin, clock, fr, call, ncalls, fixed,
                   hide_stale, legit, torn, rest, more>>

\* The dict iterator's next(): RuntimeError("dictionary changed size during
\* iteration") when len(nodes) is no longer what it was at the start of the
\* pass; nothing in main catches it.
cons_next ==
    /\ cons.pc = "next"
    /\ cons' = IF Len(nodes) /= cons.n
               THEN [NoPass EXCEPT !.pc = "crashed"]
               ELSE IF cons.i = cons.n
               THEN AfterPass(cons)
               ELSE [cons EXCEPT !.pc = "chk_lat", !.i = cons.i + 1,
                                 !.nid = nodes[cons.i + 1].id,
                                 !.by = nodes[cons.i + 1].by]
    /\ UNCHANGED <<nodes, heap, origin, clock, fr, call, ncalls, fixed,
                   hide_stale, legit, torn, rest, more>>

\* The record the loop variable d refers to.
D == heap[cons.nid][cons.by]
\* On to the next item, d's fields forgotten.
Skip(c) == [c EXCEPT !.pc = "next", !.nid = "", !.by = "", !.name = NoName,
                     !.lat = None, !.lon = None, !.last = None]

\* lines 429, 630, 646: d["lat"] is not None
cons_chk_lat ==
    /\ cons.pc = "chk_lat"
    /\ IF D.lat /= None
       THEN cons' = [cons EXCEPT !.pc = "chk_lon", !.lat = D.lat]
                /\ legit' = Boundary(cons.nid, cons.by)
       ELSE IF cons.pass = "all"
       THEN cons' = [cons EXCEPT !.pc = "f1"]
                /\ legit' = Boundary(cons.nid, cons.by)
       ELSE cons' = Skip(cons) /\ legit' = {}
    /\ UNCHANGED <<nodes, heap, origin, clock, fr, call, ncalls, fixed,
                   hide_stale, torn, rest, more>>

\* lines 429, 630, 646: d["lon"] is not None; line 648: and origin["set"]
cons_chk_lon ==
    /\ cons.pc = "chk_lon"
    /\ IF D.lon /= None
       THEN cons' = [cons EXCEPT !.lon = D.lon,
                        !.pc = IF cons.pass = "all" /\ ~origin.set
                               THEN "f1" ELSE "use_lat"]
                /\ legit' = legit
       ELSE IF cons.pass = "all"
       THEN cons' = [cons EXCEPT !.pc = "f1"] /\ legit' = legit
       ELSE cons' = Skip(cons) /\ legit' = {}
    /\ UNCHANGED <<nodes, heap, origin, clock, fr, call, ncalls, fixed,
                   hide_stale, torn, rest, more>>

\* lines 430, 631, 649: d["lat"], the first argument of latlon_to_xy_m
cons_use_lat ==
    /\ cons.pc = "use_lat"
    /\ cons' = [cons EXCEPT !.pc = "use_lon", !.lat = D.lat]
    /\ UNCHANGED <<nodes, heap, origin, clock, fr, call, ncalls, fixed,
                   hide_stale, legit, torn, rest, more>>

\* lines 430, 631, 649: d["lon"], the second argument of latlon_to_xy_m
cons_use_lon ==
    /\ cons.pc = "use_lon"
    /\ cons' = [cons EXCEPT !.pc = "f1", !.lon = D.lon]
    /\ UNCHANGED <<nodes, heap, origin, clock, fr, call, ncalls, fixed,
                   hide_stale, legit, torn, rest, more>>

\* lines 432-433: age = _now - d["last"], and the stale filter; line 633:
\* d["last"]; line 651: d["name"]
cons_f1 ==
    /\ cons.pc = "f1"
    /\ IF cons.pass = "all"
       THEN cons' = [cons EXCEPT !.pc = "f2", !.name = D.name] /\ legit' = legit
       ELSE IF cons.pass = "plot" /\ hide_stale /\ cons.now - D.last > STALE_SEC
       THEN cons' = Skip(cons) /\ legit' = {}
       ELSE cons' = [cons EXCEPT !.pc = "f2", !.last = D.last] /\ legit' = legit
    /\ UNCHANGED <<nodes, heap, origin, clock, fr, call, ncalls, fixed,
                   hide_stale, torn, rest, more>>

\* What the render loop has read of d once the last field is in.
Seen(c, r) ==
    IF c.pass = "all"
    THEN [name |-> c.name, lat |-> c.lat, lon |-> c.lon, last |-> r.last]
    ELSE [name |-> r.name, lat |-> c.lat, lon |-> c.lon, last |-> c.last]

\* lines 434, 633: d["name"], and line 651: d["last"]; the entry is appended.
cons_f2 ==
    /\ cons.pc = "f2"
    /\ torn' = (torn \/ Seen(cons, D) \notin legit)
    /\ legit' = {}
    /\ cons' = Skip(cons)
    /\ UNCHANGED <<nodes, heap, origin, clock, fr, call, ncalls, fixed,
                   hide_stale, rest, more>>

ConsStep ==
    \/ cons_tick \/ cons_begin \/ cons_next \/ cons_chk_lat \/ cons_chk_lon
    \/ cons_use_lat \/ cons_use_lon \/ cons_f1 \/ cons_f2

\* The reader thread and the render loop.
NextRW ==
    \/ ThreadCall("rx") \/ UpsertStep("rx")
    \/ KeyF \/ ConsStep \/ AdvanceClock

SpecRW == Init /\ [][NextRW]_vars

\* ------------------------------------------------- the ingestion handlers
\* on_rx and on_node_updated are pubsub callbacks (lines 221-222); each is
\* one step here, run in the reader thread's context.  status["last_packet"]
\* (line 161) only feeds the header text and is not kept.

\* pkt["from"]: absent, a node number, or a dict that carries a longName.
FromVals == {"none", "num", "dict"}
\* A position dict, <<latitude, longitude>>; None is a key that is absent
\* (<<None, None>>: no position, or an empty one).
PosVals == {<<None, None>>, <<1, None>>, <<Bad, 1>>} \cup Fixes

\* The packets of "meshtastic.receive".  given: the packet is not None and
\* not bytes; raw: decoded["payload"] is there and is bytes.
Packets ==
    [given : BOOLEAN, fromId : {NoName} \cup {"A"}, from : FromVals,
     rxTime : {None} \cup Times, position : PosVals, raw : BOOLEAN]

\* line 165: `not pkt`, the dict is empty
pkt_empty(pkt) ==
    /\ pkt.fromId = NoName /\ pkt.from = "none" /\ pkt.rxTime = None
    /\ pkt.position = <<None, None>> /\ ~pkt.raw

\* line 169: nid = pkt.get("fromId") or str(pkt.get("from") or "") or "unknown"
rx_nid(pkt) ==
    IF TruthyStr(pkt.fromId) THEN pkt.fromId
    ELSE IF pkt.from = "num" THEN NumStr
    ELSE IF pkt.from = "dict" THEN DictStr
    ELSE "unknown"

\* line 170: ts = float(pkt.get("rxTime") or now())
rx_ts(pkt, nw) == IF TruthyNum(pkt.rxTime) THEN pkt.rxTime ELSE nw

\* lines 172-175: the name, when `from` is a dict
rx_name(pkt) == IF pkt.from = "dict" THEN "n1" ELSE NoName

\* lines 177-181: looking the position up calls .get on decoded["payload"]
\* when decoded has no position; on bytes that raises AttributeError.
rx_pos_raises(pkt) == pkt.position = <<None, None>> /\ pkt.raw

\* line 183: both keys are in pos
rx_has_pos(pkt) == pkt.position[1] /= None /\ pkt.position[2] /= None

\* `name or nid` of lines 184, 186, 201 and 235
name_or(name, nid) == IF TruthyStr(name) THEN name ELSE nid

\* The packet names no node: neither fromId nor from.
rx_no_id(pkt) == pkt.fromId = NoName /\ pkt.from = "none"

\* lines 161-190: what on_rx does with a packet
rx_deliver(pkt) ==
    /\ IF ~pkt.given \/ pkt_empty(pkt) \/ rx_pos_raises(pkt)
       THEN /\ UNCHANGED <<nodes, heap, origin, fixed, q>>
            /\ call' = [NoCall EXCEPT !.op = "on_rx", !.noId = rx_no_id(pkt)]
       ELSE \E nid \in {rx_nid(pkt)},
               pos \in {IF rx_has_pos(pkt) THEN pkt.position ELSE <<None, None>>} :
            \E r \in {upsert_result(nodes, heap, origin, "rx", nid,
                                    name_or(rx_name(pkt), nid), pos[1], pos[2],
                                    rx_ts(pkt, clock), clock)} :
              /\ nodes' = r.nodes
              /\ heap' = r.heap
              /\ origin' = r.origin
              /\ fixed' = IF ~r.raised /\ upsert_has_fix(pos[1], pos[2])
                          THEN fixed \cup {nid} ELSE fixed
              /\ q' = IF r.raised THEN q
                      ELSE Append(q, <<"rx", nid, rx_ts(pkt, clock)>>)
              /\ call' = [op |-> "on_rx", nid |-> nid,
                          hasLat |-> pos[1] /= None, hasLon |-> pos[2] /= None,
                          hadRec |-> DictHas(nodes, nid),
                          hadFix |-> DictHas(nodes, nid) /\ HasFix(Rec(nodes, heap, nid)),
                          noId |-> rx_no_id(pkt)]
    /\ UNCHANGED <<clock, fr, legit, aside, points_m, link_mode, edges, drawn, more>>

\* lines 160-190, for one of the MaxCalls packets of a run
on_rx(pkt) ==
    /\ fr["rx"].pc = "idle"
    /\ ncalls < MaxCalls
    /\ ncalls' = ncalls + 1
    /\ rx_deliver(pkt)

\* The node infos of "meshtastic.node.updated".  given: node is not None.
NodeInfos ==
    [given : BOOLEAN, num : {None, 7}, id : {NoName} \cup {"A"},
     longName : {NoName} \cup GivenNames, position : PosVals]

\* line 194: `not nd`, the dict is empty
nd_empty(nd) ==
    /\ nd.num = None /\ nd.id = NoName /\ nd.longName = NoName
    /\ nd.position = <<None, None>>

\* line 197: nid = str(nd.get("num") or nd.get("id") or "")
nd_nid(nd) ==
    IF TruthyNum(nd.num) THEN NumStr
    ELSE IF TruthyStr(nd.id) THEN nd.id
    ELSE ""

\* lines 192-206
on_node_updated(nd) ==
    /\ fr["rx"].pc = "idle"
    /\ ncalls < MaxCalls
    /\ ncalls' = ncalls + 1
    /\ IF ~nd.given \/ nd_empty(nd) \/ nd_nid(nd) = ""
       THEN /\ UNCHANGED <<nodes, heap, origin, fixed, q>>
            /\ call' = [NoCall EXCEPT !.op = "on_node_updated",
                                      !.noId = (nd_nid(nd) = "")]
       ELSE \E nid \in {nd_nid(nd)} :
            \E r \in {upsert_result(nodes, heap, origin, "rx", nid,
                                    name_or(nd.longName, nid), nd.position[1],
                                    nd.position[2], clock, clock)} :
              /\ nodes' = r.nodes
              /\ heap' = r.heap
              /\ origin' = r.origin
              /\ fixed' = IF ~r.raised /\ upsert_has_fix(nd.position[1], nd.position[2])
                          THEN fixed \cup {nid} ELSE fixed
              /\ q' = IF r.raised THEN q ELSE Append(q, <<"node", nid, clock>>)
              /\ call' = [op |-> "on_node_updated", nid |-> nid,
                          hasLat |-> nd.position[1] /= None,
                          hasLon |-> nd.position[2] /= None,
                          hadRec |-> DictHas(nodes, nid),
                          hadFix |-> DictHas(nodes, nid) /\ HasFix(Rec(nodes, heap, nid)),
                          noId |-> FALSE]
    /\ UNCHANGED <<clock, fr, legit, aside, points_m, link_mode, edges, drawn, more>>

\* lines 396-399: the render loop empties the queue
drain ==
    /\ q /= << >>
    /\ q' = << >>
    /\ UNCHANGED <<nodes, heap, origin, clock, fr, call, ncalls, fixed, legit,
                   aside, points_m, link_mode, edges, drawn, more>>

Receive == \E pkt \in Packets : on_rx(pkt)
NodeUpdated == \E nd \in NodeInfos : on_node_updated(nd)

NextIngest == Receive \/ NodeUpdated \/ drain \/ AdvanceClock

SpecIngest == Init /\ [][NextIngest]_vars

\* ----------------------------------------------- the drain, get by get
\* A burst: packets of node A keep arriving, with or without a position,
\* as long as there is room in the model's queue (queue.Queue() has no
\* limit).  Each is delivered to on_rx, whose line 188 puts an entry.
Burst ==
    /\ fr["rx"].pc = "idle"
    /\ Len(q) < MaxQueue
    /\ \E pkt \in {p \in Packets : /\ p.given /\ ~p.raw
                                  /\ p.fromId = "A" /\ p.from = "none"
                                  /\ p.rxTime /= None
                                  /\ p.position \in {<<None, None>>, <<1, 1>>}} :
          rx_deliver(pkt)
    /\ UNCHANGED ncalls

\* lines 396-399, one q.get_nowait() of `while True`: an entry is taken and
\* the loop goes on, or the queue is empty, queue.Empty is raised at once
\* and caught, and the tick goes on to line 401.  The call never waits.
get_nowait ==
    /\ ui.pc \in {"events", "drain"}
    /\ IF q = << >>
       THEN /\ ui' = [ui EXCEPT !.pc = "events", !.last = "Empty"]
            /\ q' = q
       ELSE /\ ui' = [ui EXCEPT !.pc = "drain", !.last = "get"]
            /\ q' = Tail(q)
    /\ UNCHANGED <<nodes, heap, origin, clock, fr, call, ncalls, fixed, legit,
                   aside, points_m, link_mode, edges, drawn, knn_k, knn_max,
                   zoom_mode, zoom_k, pan_x_m, pan_y_m, pan_vx, pan_vy,
                   plottable, proj>>

NextDrain == Burst \/ get_nowait \/ AdvanceClock

\* The render loop and the reader thread both get to run.
SpecDrain ==
    /\ Init
    /\ [][NextDrain]_vars
    /\ WF_vars(get_nowait)
    /\ WF_vars(Burst)

\* ------------------------------------------------------------ link topology
\* Points are kept in km, not in metres, so that squared distances stay
\* small; LINK_MAX_METERS is converted where it is used.
Pts == {<<0, 0>>, <<30, 0>>, <<0, 40>>, <<90, 0>>, <<30, 40>>}
PointLists == UNION {[1..n -> Pts] : n \in 0..MaxPts}

\* float("inf"): above every squared distance of PointLists.
Inf == 1000000

\* The one element of a singleton set.
Only(S) == CHOOSE x \in S : TRUE
\* points[i], with Python's indices from 0.
At(points, i) == points[i + 1]

\* lines 263-265
_euclid2(ax, ay, bx, by) == (ax - bx) * (ax - bx) + (ay - by) * (ay - by)

RECURSIVE mst_select_any(_, _, _, _, _, _)
\* The selection loop without the `not in_tree[j]` test.
mst_select_any(in_tree, dist2, n, j, k, best) ==
    IF j = n THEN k
    ELSE IF dist2[j] < best
    THEN mst_select_any(in_tree, dist2, n, j + 1, j, dist2[j])
    ELSE mst_select_any(in_tree, dist2, n, j + 1, k, best)

RECURSIVE mst_select(_, _, _, _, _, _)
\* lines 279-282: the nearest point not in the tree, from j on
mst_select(in_tree, dist2, n, j, k, best) ==
    IF j = n THEN k
    ELSE IF ~in_tree[j] /\ dist2[j] < best
    THEN mst_select(in_tree, dist2, n, j + 1, j, dist2[j])
    ELSE mst_select(in_tree, dist2, n, j + 1, k, best)

\* The relaxation loop left out: dist2 and parent stay as lines 274-276 set
\* them.
mst_relax_none(points, in_tree, st, k, n, j) == st

RECURSIVE mst_relax(_, _, _, _, _, _)
\* lines 286-291: dist2 and parent after point k joined the tree, from j on
mst_relax(points, in_tree, st, k, n, j) ==
    IF j = n THEN st
    ELSE IF ~in_tree[j]
            /\ _euclid2(At(points, k)[1], At(points, k)[2],
                        At(points, j)[1], At(points, j)[2]) < st.dist2[j]
    THEN mst_relax(points, in_tree,
                   [dist2 |-> [st.dist2 EXCEPT ![j] =
                                   _euclid2(At(points, k)[1], At(points, k)[2],
                                            At(points, j)[1], At(points, j)[2])],
                    parent |-> [st.parent EXCEPT ![j] = k]],
                   k, n, j + 1)
    ELSE mst_relax(points, in_tree, st, k, n, j + 1)

RECURSIVE mst_grow(_, _, _, _, _, _)
RECURSIVE mst_attach(_, _, _, _, _, _, _)
\* lines 278-283: one round of `for _ in range(n-1)`, `rounds` to go
mst_grow(points, in_tree, st, edges_, n, rounds) ==
    IF rounds = 0 THEN edges_
    ELSE Only({mst_attach(points, in_tree, st, edges_, n, rounds, k) :
                  k \in {mst_select(in_tree, st.dist2, n, 0, -1, Inf)}})

\* lines 283-291: break, or k joins the tree
mst_attach(points, in_tree, st, edges_, n, rounds, k) ==
    IF k = -1 THEN edges_
    ELSE Only({mst_grow(points, it, st2, Append(edges_, <<k, st.parent[k]>>),
                        n, rounds - 1) :
                  it \in {[in_tree EXCEPT ![k] = TRUE]},
                  st2 \in {mst_relax(points, [in_tree EXCEPT ![k] = TRUE],
                                     st, k, n, 0)}})

\* lines 267-292; an edge is <<k, parent[k]>>, indices from 0
build_mst_edges(points) ==
    IF Len(points) <= 1 THEN << >>
    ELSE mst_grow(points,
                  [j \in 0..Len(points) - 1 |-> j = 0],
                  [dist2 |-> [j \in 0..Len(points) - 1 |->
                                 IF j = 0 THEN Inf
                                 ELSE _euclid2(At(points, 0)[1], At(points, 0)[2],
                                               At(points, j)[1], At(points, j)[2])],
                   parent |-> [j \in 0..Len(points) - 1 |->
                                  IF j = 0 THEN -1 ELSE 0]],
                  << >>, Len(points), Len(points) - 1)

\* lines 299-304: dlist, the <<d2, j>> of the other points in index order
knn_dlist(points, i) ==
    LET js == SelectSeq([m \in 1..Len(points) |-> m - 1], LAMBDA j : j /= i)
    IN  [m \in 1..Len(js) |->
            <<_euclid2(At(points, i)[1], At(points, i)[2],
                       At(points, js[m])[1], At(points, js[m])[2]), js[m]>>]

\* x put into the sorted list behind every entry whose d2 is not larger.
sort_insert(sorted, x) ==
    LET p == Cardinality({m \in 1..Len(sorted) : sorted[m][1] <= x[1]})
    IN  SubSeq(sorted, 1, p) \o <<x>> \o SubSeq(sorted, p + 1, Len(sorted))

RECURSIVE sort_by_d2(_)
\* line 305: dlist.sort(key=lambda t: t[0]), a stable sort
sort_by_d2(s) ==
    IF Len(s) = 0 THEN s
    ELSE sort_insert(sort_by_d2(SubSeq(s, 1, Len(s) - 1)), s[Len(s)])

\* line 309: a, b = (i, j) if i < j else (j, i)
knn_pair(i, j) == IF i < j THEN <<i, j>> ELSE <<j, i>>

RECURSIVE knn_scan(_, _, _, _, _, _, _)
\* lines 306-312: the loop over the sorted dlist of point i, from entry m on
knn_scan(dlist, m, i, k, max_m2, out, added) ==
    IF m > Len(dlist) THEN out
    ELSE IF dlist[m][1] <= max_m2 /\ knn_pair(i, dlist[m][2]) \notin out
    THEN IF added + 1 >= k
         THEN out \cup {knn_pair(i, dlist[m][2])}
         ELSE knn_scan(dlist, m + 1, i, k, max_m2,
                       out \cup {knn_pair(i, dlist[m][2])}, added + 1)
    ELSE knn_scan(dlist, m + 1, i, k, max_m2, out, added)

RECURSIVE knn_rows(_, _, _, _, _)
\* lines 298-312: `for i in range(n)`, from point i on
knn_rows(points, i, k, max_m2, out) ==
    IF i = Len(points) THEN out
    ELSE Only({knn_rows(points, i + 1, k, max_m2, o) :
                  o \in {knn_scan(sort_by_d2(knn_dlist(points, i)), 1, i, k,
                                  max_m2, out, 0)}})

\* <<a, b>> comes before <<c, d>>.
PairLess(e, f) == e[1] < f[1] \/ (e[1] = f[1] /\ e[2] < f[2])

RECURSIVE list(_)
\* list(out) of a set of pairs: every element once.  Python leaves the order
\* to the set; the pairs are listed here in ascending order.
list(S) ==
    IF S = {} THEN << >>
    ELSE Only({<<e>> \o list(S \ {e}) :
                  e \in {x \in S : \A y \in S : y = x \/ PairLess(x, y)}})

\* lines 294-313; max_m in km
build_knn_edges(points, k, max_m) ==
    list(knn_rows(points, 0, k, max_m * max_m, {}))

\* An edge taken as it is, not sorted.
canon_asis(e) == e

\* line 321: tuple(sorted(e))
canon(e) == IF e[1] <= e[2] THEN e ELSE <<e[2], e[1]>>

\* The elements of a list.
set(s) == {s[m] : m \in 1..Len(s)}

\* lines 315-323; the defaults of build_knn_edges are k=2 and
\* max_m=LINK_MAX_METERS
build_links(points, mode) ==
    IF Len(points) <= 1 THEN << >>
    ELSE IF mode = "mst" THEN build_mst_edges(points)
    ELSE IF mode = "knn"
    THEN build_knn_edges(points, K_NEIGHBORS, LINK_MAX_METERS \div 1000)
    ELSE list({canon(e) : e \in set(build_mst_edges(points))}
              \cup set(build_knn_edges(points, K_NEIGHBORS,
                                       LINK_MAX_METERS \div 1000)))

\* A tick's point list is any list of 0..MaxPts points.
InitTopo ==
    /\ nodes = << >>
    /\ heap = EmptyHeap
    /\ origin = NoOrigin
    /\ clock = 400
    /\ fr = [c \in Producers |-> NoFrame]
    /\ call = NoCall
    /\ ncalls = 0
    /\ fixed = {}
    /\ hide_stale = TRUE
    /\ cons = NoPass
    /\ legit = {}
    /\ torn = FALSE
    /\ q = << >>
    /\ points_m \in PointLists
    /\ link_mode = DEFAULT_LINK_MODE
    /\ edges = << >>
    /\ drawn = ""
    /\ knn_k = K_NEIGHBORS
    /\ knn_max = LINK_MAX_METERS \div 1000
    /\ ViewInit(200)
    /\ plottable = << >>
    /\ proj = NoProj

\* lines 369-371: key E
KeyE ==
    /\ link_mode' = LINK_MODE_CYCLE[
           ((CHOOSE i \in 1..Len(LINK_MODE_CYCLE) : LINK_MODE_CYCLE[i] = link_mode)
                % Len(LINK_MODE_CYCLE)) + 1]
    /\ UNCHANGED <<nodes, heap, origin, clock, fr, call, ncalls, fixed, legit,
                   aside, q, points_m, edges, drawn, more>>

\* line 559: edges = build_links(points_m, link_mode)
DrawLinks ==
    /\ edges' = build_links(points_m, link_mode)
    /\ drawn' = link_mode
    /\ UNCHANGED <<nodes, heap, origin, clock, fr, call, ncalls, fixed, legit,
                   aside, q, points_m, link_mode, more>>

NextTopo == KeyE \/ DrawLinks

SpecTopo == InitTopo /\ [][NextTopo]_vars

\* ---------------------------------------------- build_knn_edges, directly
\* build_knn_edges called with any k and any max_m, not only the defaults
\* that build_links passes.
MaxK == 2
\* max_m in km: negative, zero, and distances of Pts (30, 60).
MaxArgs == {-30, 0, 30, LINK_MAX_METERS \div 1000}

InitKnn ==
    /\ nodes = << >>
    /\ heap = EmptyHeap
    /\ origin = NoOrigin
    /\ clock = 400
    /\ fr = [c \in Producers |-> NoFrame]
    /\ call = NoCall
    /\ ncalls = 0
    /\ fixed = {}
    /\ hide_stale = TRUE
    /\ cons = NoPass
    /\ legit = {}
    /\ torn = FALSE
    /\ q = << >>
    /\ points_m \in PointLists
    /\ link_mode = DEFAULT_LINK_MODE
    /\ edges = << >>
    /\ drawn = ""
    /\ knn_k \in 0..MaxK
    /\ knn_max \in MaxArgs
    /\ ViewInit(200)
    /\ plottable = << >>
    /\ proj = NoProj

\* edges = build_knn_edges(points_m, k, max_m)
CallKnn ==
    /\ edges' = build_knn_edges(points_m, knn_k, knn_max)
    /\ drawn' = "knn_call"
    /\ UNCHANGED <<nodes, heap, origin, clock, fr, call, ncalls, fixed, legit,
                   aside, q, points_m, link_mode, more>>

NextKnn == CallKnn

SpecKnn == InitKnn /\ [][NextKnn]_vars

\* ------------------------------------------------- the snapshot of a tick
\* The stale filter without the age test
plot_keep_all(hide, age) == TRUE

\* line 433: not hide_stale or age <= STALE_SEC
plot_keep(hide, age) == ~hide \/ age <= STALE_SEC

\* lines 415 and 425-435, run as one step between two calls of upsert_node:
\* the entries of nodes in the dict's order that have a fix and pass the
\* stale filter, as (nid, name, x, y, age), then sorted by age with the
\* stable sort of list.sort
tick_plottable ==
    /\ \A c \in Producers : fr[c].pc = "idle"
    /\ ui.t < MaxTicks
    /\ LET d(e) == heap[e.id][e.by]
           xy(e) == latlon_to_xy_m(d(e).lat, d(e).lon, origin.lat, origin.lon)
           kept == SelectSeq(nodes, LAMBDA e :
                       /\ origin.set
                       /\ d(e).lat /= None /\ d(e).lon /= None
                       /\ xy(e) /= << >>
                       /\ plot_keep(hide_stale, clock - d(e).last))
           rows == [i \in 1..Len(kept) |->
                       <<clock - d(kept[i]).last,
                         <<kept[i].id, d(kept[i]).name, xy(kept[i])[1],
                           xy(kept[i])[2], clock - d(kept[i]).last>>>>]
           sorted == sort_by_d2(rows)
       IN  plottable' = [i \in 1..Len(sorted) |-> sorted[i][2]]
    /\ ui' = [ui EXCEPT !.t = @ + 1, !.last = "plottable"]
    /\ UNCHANGED <<nodes, heap, origin, clock, fr, call, ncalls, fixed, legit,
                   aside, rest, knn_k, knn_max, zoom_mode, zoom_k, pan_x_m,
                   pan_y_m, pan_vx, pan_vy, proj>>

\* The calls of upsert_node between the ticks: with or without a name, with
\* or without a fix, at either timestamp.
ApplySnap ==
    \E nid \in Ids, name \in {NoName} \cup GivenNames,
       pos \in {<<None, None>>, <<1, 1>>}, ts \in Times :
        Invoke("rx", nid, name, pos[1], pos[2], ts)

NextSnap ==
    \/ ApplySnap
    \/ upsert_node("rx")
    \/ AdvanceClock
    \/ KeyF
    \/ tick_plottable

SpecSnap == Init /\ [][NextSnap]_vars

\* ------------------------------------------------------ the view, by event
\* The inputs of the view: keys of lines 353-379 (F and E are KeyF and
\* KeyE); positions of the mouse wheel (the plot's centre, a point of the
\* plot off the centre, a point of the side panel) and of a drag (the two
\* points of the plot); the distance of the farthest plottable point (no
\* point: 200; a point 420 m away; one 4200 km away, where the scale of Fit
\* is the floor of the manual scale).
Inputs ==
    [keys |-> {"K_d", "K_s", "K_EQUALS", "K_MINUS", "K_0", "K_PAGEDOWN"},
     pos  |-> {<<614, 545>>, <<634, 535>>, <<1300, 500>>},
     drag |-> {<<614, 545>>, <<634, 535>>},
     far  |-> {200, 420, 4200000}]

\* Lines 404-407, 422 and 442 on a 1920 x 1080 screen: the rectangles plot
\* and side, the plot's centre and the largest radius drawn.
layout ==
    LET W == 1920
        H == 1080
        frac == RInt(RMul(<<W, 1>>, <<9, 25>>))
        right_w == IF frac > 780 THEN 780 ELSE IF frac < 460 THEN 460 ELSE frac
        plot == [left |-> 48, top |-> 48 + 40, width |-> W - right_w - 2 * 48,
                 height |-> H - (48 + 118)]
        side == [left |-> plot.left + plot.width + 14, top |-> 48 + 40,
                 width |-> right_w - 20, height |-> H - (48 + 118 + 12)]
        least == IF plot.width < plot.height THEN plot.width ELSE plot.height
    IN  [plot |-> plot, side |-> side,
         cx |-> plot.left + (plot.width \div 2),
         cy |-> plot.top + (plot.height \div 2),
         max_px_radius |-> RInt(RMul(<<least, 1>>, <<23, 50>>))]

\* lines 443-444 (and 461): the scale in pixels per metre
scale_of(far, mode, k) ==
    LET fit_scale == IF far > 0 THEN Rat(layout.max_px_radius, far) ELSE <<1, 1>>
        manual == RMul(fit_scale, k)
    IN  IF mode = "fit" THEN fit_scale
        ELSE IF RLess(manual, <<1, 10000>>) THEN <<1, 10000>> ELSE manual

\* lines 446-447; v is what the closure reads when it is called: the
\* globals pan_x_m and pan_y_m and main's scale
to_screen(v, xm, ym) ==
    <<RInt(RAdd(<<layout.cx, 1>>, RMul(RSub(xm, v[1]), v[3]))),
      RInt(RSub(<<layout.cy, 1>>, RMul(RSub(ym, v[2]), v[3])))>>

\* key_view with zoom steps that leave the zoom mode as it is
key_view_mode_kept(key) ==
    CASE key \in {"K_EQUALS", "K_PLUS"} ->
            [zoom_mode |-> zoom_mode, zoom_k |-> RMul(zoom_k, ZOOM_STEP),
             pan |-> <<pan_x_m, pan_y_m>>, pan_v |-> <<pan_vx, pan_vy>>]
      [] key \in {"K_MINUS", "K_UNDERSCORE"} ->
            [zoom_mode |-> zoom_mode, zoom_k |-> RDiv(zoom_k, ZOOM_STEP),
             pan |-> <<pan_x_m, pan_y_m>>, pan_v |-> <<pan_vx, pan_vy>>]
      [] key = "K_0" ->
            [zoom_mode |-> "fit", zoom_k |-> <<1, 1>>,
             pan |-> <<<<0, 1>>, <<0, 1>>>>, pan_v |-> <<<<0, 1>>, <<0, 1>>>>]
      [] OTHER ->
            [zoom_mode |-> zoom_mode, zoom_k |-> zoom_k,
             pan |-> <<pan_x_m, pan_y_m>>, pan_v |-> <<pan_vx, pan_vy>>]

\* key_view with a reset that leaves the velocity as it is
key_view_velocity_kept(key) ==
    CASE key \in {"K_EQUALS", "K_PLUS"} ->
            [zoom_mode |-> "manual", zoom_k |-> RMul(zoom_k, ZOOM_STEP),
             pan |-> <<pan_x_m, pan_y_m>>, pan_v |-> <<pan_vx, pan_vy>>]
      [] key \in {"K_MINUS", "K_UNDERSCORE"} ->
            [zoom_mode |-> "manual", zoom_k |-> RDiv(zoom_k, ZOOM_STEP),
             pan |-> <<pan_x_m, pan_y_m>>, pan_v |-> <<pan_vx, pan_vy>>]
      [] key = "K_0" ->
            [zoom_mode |-> "fit", zoom_k |-> <<1, 1>>,
             pan |-> <<<<0, 1>>, <<0, 1>>>>, pan_v |-> <<pan_vx, pan_vy>>]
      [] OTHER ->
            [zoom_mode |-> zoom_mode, zoom_k |-> zoom_k,
             pan |-> <<pan_x_m, pan_y_m>>, pan_v |-> <<pan_vx, pan_vy>>]

\* lines 358-364: the view after a key: + or = and - or _ are zoom steps,
\* 0 resets the view, no other key touches it
key_view(key) ==
    CASE key \in {"K_EQUALS", "K_PLUS"} ->
            [zoom_mode |-> "manual", zoom_k |-> RMul(zoom_k, ZOOM_STEP),
             pan |-> <<pan_x_m, pan_y_m>>, pan_v |-> <<pan_vx, pan_vy>>]
      [] key \in {"K_MINUS", "K_UNDERSCORE"} ->
            [zoom_mode |-> "manual", zoom_k |-> RDiv(zoom_k, ZOOM_STEP),
             pan |-> <<pan_x_m, pan_y_m>>, pan_v |-> <<pan_vx, pan_vy>>]
      [] key = "K_0" ->
            [zoom_mode |-> "fit", zoom_k |-> <<1, 1>>,
             pan |-> <<<<0, 1>>, <<0, 1>>>>, pan_v |-> <<<<0, 1>>, <<0, 1>>>>]
      [] OTHER ->
            [zoom_mode |-> zoom_mode, zoom_k |-> zoom_k,
             pan |-> <<pan_x_m, pan_y_m>>, pan_v |-> <<pan_vx, pan_vy>>]

\* lines 351-379: one KEYDOWN event
KeyDown ==
    /\ ui.pc = "events"
    /\ ui.n < MaxEvents
    /\ \E key \in Inputs.keys :
        /\ key \in {"K_EQUALS", "K_MINUS"} => ui.z < MaxZoom
        /\ ui' = [ui EXCEPT
                !.n = @ + 1,
                !.z = IF key \in {"K_EQUALS", "K_MINUS"} THEN @ + 1 ELSE @,
                !.last = key,
                !.was = <<zoom_mode, zoom_k, pan_x_m, pan_y_m, pan_vx, pan_vy>>,
                !.got = IF key \in {"K_EQUALS", "K_MINUS", "K_0"}
                        THEN Append(@, [type |-> "KEYDOWN", key |-> key,
                                        pos |-> <<0, 0>>])
                        ELSE @,
                !.keys_held = IF key \in {"K_w", "K_a", "K_s", "K_d", "K_UP",
                                          "K_DOWN", "K_LEFT", "K_RIGHT"}
                              THEN @ \cup {key} ELSE @,
                !.side_scroll = CASE key = "K_PAGEUP" -> IF @ < 500 THEN 0 ELSE @ - 500
                                  [] key = "K_PAGEDOWN" -> @ + 500
                                  [] key = "K_HOME" -> 0
                                  [] key = "K_END" -> 10^9
                                  [] OTHER -> @]
        /\ \E v \in {key_view(key)} :
            /\ zoom_mode' = v.zoom_mode
            /\ zoom_k' = v.zoom_k
            /\ pan_x_m' = v.pan[1]
            /\ pan_y_m' = v.pan[2]
            /\ pan_vx' = v.pan_v[1]
            /\ pan_vy' = v.pan_v[2]
    /\ UNCHANGED <<nodes, heap, origin, clock, fr, call, ncalls, fixed, legit,
                   aside, rest, knn_k, knn_max, plottable, proj>>

\* lines 380-381: one KEYUP event
KeyUp ==
    /\ ui.pc = "events"
    /\ ui.n < MaxEvents
    /\ \E key \in Inputs.keys :
        ui' = [ui EXCEPT !.n = @ + 1, !.last = "KEYUP",
                         !.keys_held = @ \ {key}]
    /\ UNCHANGED <<nodes, heap, origin, clock, fr, call, ncalls, fixed, legit,
                   aside, rest, knn_k, knn_max, plottable, proj, zoom_mode, zoom_k, pan_x_m,
                   pan_y_m, pan_vx, pan_vy>>

\* lines 382-386: one MOUSEBUTTONDOWN event (left button, or a wheel notch
\* reported as button 4 or 5)
MouseButtonDown ==
    /\ ui.pc = "events"
    /\ ui.n < MaxEvents
    /\ \E button \in {1, 4, 5}, pos \in Inputs.pos :
        /\ button = 1 => pos \in Inputs.drag
        /\ button /= 1 => ui.z < MaxZoom
        /\ ui' = IF button = 1
                 THEN [ui EXCEPT !.n = @ + 1, !.last = "BUTTON1",
                                 !.dragging = TRUE, !.drag_start = pos,
                                 !.pan_start = <<pan_x_m, pan_y_m>>]
                 ELSE [ui EXCEPT !.n = @ + 1, !.z = @ + 1, !.last = "BUTTON45",
                                 !.got = Append(@, [type |-> "WHEEL", key |-> "",
                                                    pos |-> pos]),
                                 !.posted = Append(@,
                                     [type |-> "WHEEL_EVT", pos |-> pos,
                                      dir |-> IF button = 4 THEN 1 ELSE -1])]
    /\ UNCHANGED <<nodes, heap, origin, clock, fr, call, ncalls, fixed, legit,
                      aside, rest, knn_k, knn_max, plottable, proj, zoom_mode, zoom_k, pan_x_m,
                      pan_y_m, pan_vx, pan_vy>>

\* lines 387-388: the left button released
MouseButtonUp ==
    /\ ui.pc = "events"
    /\ ui.n < MaxEvents
    /\ ui' = [ui EXCEPT !.n = @ + 1, !.last = "BUTTONUP", !.dragging = FALSE]
    /\ UNCHANGED <<nodes, heap, origin, clock, fr, call, ncalls, fixed, legit,
                   aside, rest, knn_k, knn_max, plottable, proj, zoom_mode, zoom_k, pan_x_m,
                   pan_y_m, pan_vx, pan_vy>>

\* lines 389-391: the mouse moved during a drag
MouseMotion ==
    /\ ui.pc = "events"
    /\ ui.n < MaxEvents
    /\ ui.dragging
    /\ \E pos \in Inputs.drag :
        ui' = [ui EXCEPT !.n = @ + 1, !.last = "MOTION",
                         !.posted = Append(@,
                             [type |-> "PAN_EVT",
                              pix_pan |-> <<pos[1] - ui.drag_start[1],
                                            pos[2] - ui.drag_start[2]>>,
                              pan_start |-> ui.pan_start])]
    /\ UNCHANGED <<nodes, heap, origin, clock, fr, call, ncalls, fixed, legit,
                   aside, rest, knn_k, knn_max, plottable, proj, zoom_mode, zoom_k, pan_x_m,
                   pan_y_m, pan_vx, pan_vy>>

\* lines 392-394: one MOUSEWHEEL event
MouseWheel ==
    /\ ui.pc = "events"
    /\ ui.n < MaxEvents
    /\ ui.z < MaxZoom
    /\ \E pos \in Inputs.pos, y \in {-1, 1} :
        ui' = [ui EXCEPT !.n = @ + 1, !.z = @ + 1, !.last = "WHEEL",
                         !.got = Append(@, [type |-> "WHEEL", key |-> "",
                                            pos |-> pos]),
                         !.posted = Append(@,
                             [type |-> "WHEEL_EVT", pos |-> pos,
                              dir |-> IF y > 0 THEN 1 ELSE -1])]
    /\ UNCHANGED <<nodes, heap, origin, clock, fr, call, ncalls, fixed, legit,
                   aside, rest, knn_k, knn_max, plottable, proj, zoom_mode, zoom_k, pan_x_m,
                   pan_y_m, pan_vx, pan_vy>>

\* lines 439-444: the events of the tick are handled; the tick's scale
tick_scale ==
    /\ ui.pc = "events"
    /\ ui.t < MaxTicks
    /\ ui' = [ui EXCEPT !.pc = "wheel", !.last = "scale",
                        !.scale = scale_of(ui.far, zoom_mode, zoom_k)]
    /\ UNCHANGED <<nodes, heap, origin, clock, fr, call, ncalls, fixed, legit,
                   aside, rest, knn_k, knn_max, plottable, proj, zoom_mode, zoom_k, pan_x_m,
                   pan_y_m, pan_vx, pan_vy>>

\* lines 462-463 with the tick's scale in the place of the new one
zoom_pan_old(w, off, old_scale, scale) == RSub(w, RDiv(off, old_scale))

\* lines 462-463: the pan that keeps the world coordinate w at the pixel
\* offset off from the plot's centre, with the new scale
zoom_pan(w, off, old_scale, scale) == RSub(w, RDiv(off, scale))

\* lines 450-467: one posted event, WHEEL_EVT or PAN_EVT
posted_evt ==
    /\ ui.pc = "wheel"
    /\ ui.posted /= << >>
    /\ LET ev == Head(ui.posted)
           cx == <<layout.cx, 1>>
           cy == <<layout.cy, 1>>
       IN  IF ev.type = "WHEEL_EVT"
           THEN LET mx == <<ev.pos[1], 1>>
                    my == <<ev.pos[2], 1>>
                    side == layout.side
                IN  IF /\ side.left <= ev.pos[1]
                       /\ ev.pos[1] < side.left + side.width
                       /\ side.top <= ev.pos[2]
                       /\ ev.pos[2] < side.top + side.height
                    THEN /\ ui' = [ui EXCEPT
                                !.posted = Tail(@), !.last = "side",
                                !.side_scroll = @ - ev.dir * ((FONT_SMALL + 6) * 4)]
                         /\ UNCHANGED <<zoom_mode, zoom_k, pan_x_m, pan_y_m>>
                    ELSE \E wx \in {RAdd(RDiv(RSub(mx, cx), ui.scale), pan_x_m)},
                            wy \in {RAdd(RDiv(RSub(cy, my), ui.scale), pan_y_m)},
                            k \in {IF ev.dir > 0 THEN RMul(zoom_k, ZOOM_STEP)
                                   ELSE RMul(zoom_k, RDiv(<<1, 1>>, ZOOM_STEP))} :
                         \E scale \in {scale_of(ui.far, "manual", k)} :
                            /\ zoom_mode' = "manual"
                            /\ zoom_k' = k
                            /\ ui' = [ui EXCEPT !.posted = Tail(@),
                                                !.last = "zoom",
                                                !.scale = scale]
                            /\ pan_x_m' = zoom_pan(wx, RSub(mx, cx), ui.scale, scale)
                            /\ pan_y_m' = zoom_pan(wy, RSub(cy, my), ui.scale, scale)
           ELSE /\ ui' = [ui EXCEPT !.posted = Tail(@), !.last = "pan"]
                /\ pan_x_m' = RSub(ev.pan_start[1],
                                   RDiv(<<ev.pix_pan[1], 1>>, ui.scale))
                /\ pan_y_m' = RAdd(ev.pan_start[2],
                                   RDiv(<<ev.pix_pan[2], 1>>, ui.scale))
                /\ UNCHANGED <<zoom_mode, zoom_k>>
    /\ UNCHANGED <<nodes, heap, origin, clock, fr, call, ncalls, fixed, legit,
                   aside, rest, knn_k, knn_max, plottable, proj, pan_vx, pan_vy>>

\* lines 470-478, for a frame of a tenth of a second (line 401), and on to
\* the next tick's events
wasd ==
    /\ ui.pc = "wheel"
    /\ ui.posted = << >>
    /\ LET dt == <<1, 10>>
           half == <<1, 2>>
           accel == RDiv(<<WASD_ACCEL, 1>>, IF RLess(zoom_k, half) THEN half ELSE zoom_k)
           held(a, b) == IF a \in ui.keys_held \/ b \in ui.keys_held THEN 1 ELSE 0
           a_x == held("K_d", "K_RIGHT") - held("K_a", "K_LEFT")
           a_y == held("K_w", "K_UP") - held("K_s", "K_DOWN")
           slow == RSub(<<1, 1>>, RMul(<<WASD_FRICTION, 1>>, dt))
           friction == IF RLess(slow, <<0, 1>>) THEN <<0, 1>> ELSE slow
           vx == RMul(RAdd(pan_vx, RMul(RMul(<<a_x, 1>>, accel), dt)), friction)
           vy == RMul(RAdd(pan_vy, RMul(RMul(<<a_y, 1>>, accel), dt)), friction)
       IN  /\ pan_vx' = vx
           /\ pan_vy' = vy
           /\ pan_x_m' = RAdd(pan_x_m, RMul(vx, dt))
           /\ pan_y_m' = RAdd(pan_y_m, RMul(vy, dt))
    /\ ui' = [ui EXCEPT !.pc = "events", !.t = @ + 1, !.last = "wasd",
                        !.got = << >>]
    /\ UNCHANGED <<nodes, heap, origin, clock, fr, call, ncalls, fixed, legit,
                   aside, rest, knn_k, knn_max, plottable, proj, zoom_mode, zoom_k>>

\* The render loop with any distance of the farthest point.
InitView ==
    /\ nodes = << >>
    /\ heap = EmptyHeap
    /\ origin = NoOrigin
    /\ clock = 400
    /\ fr = [c \in Producers |-> NoFrame]
    /\ call = NoCall
    /\ ncalls = 0
    /\ fixed = {}
    /\ hide_stale = TRUE
    /\ cons = NoPass
    /\ legit = {}
    /\ torn = FALSE
    /\ q = << >>
    /\ points_m = << >>
    /\ link_mode = DEFAULT_LINK_MODE
    /\ edges = << >>
    /\ drawn = ""
    /\ knn_k = K_NEIGHBORS
    /\ knn_max = LINK_MAX_METERS \div 1000
    /\ \E far \in Inputs.far : ViewInit(far)
    /\ plottable = << >>
    /\ proj = NoProj

NextView ==
    \/ KeyDown
    \/ KeyUp
    \/ KeyF
    \/ KeyE
    \/ MouseButtonDown
    \/ MouseButtonUp
    \/ MouseMotion
    \/ MouseWheel
    \/ tick_scale
    \/ posted_evt
    \/ wasd

SpecView == InitView /\ [][NextView]_vars

\* ------------------------------------------- the projection, call by call
\* The arguments of a call of latlon_to_xy_m: absent or whole degrees, on
\* and off the origin, on either side of the equator and of the meridian,
\* the origin at the pole.
ProjArgs ==
    [lat |-> {None, 0, 2, 60, -33}, lon |-> {None, 0, 2, -60},
     lat0 |-> {None, 0, 1, 2, 60, -33, 90}, lon0 |-> {None, 0, 2}]

InitProj ==
    /\ nodes = << >>
    /\ heap = EmptyHeap
    /\ origin = NoOrigin
    /\ clock = 400
    /\ fr = [c \in Producers |-> NoFrame]
    /\ call = NoCall
    /\ ncalls = 0
    /\ fixed = {}
    /\ hide_stale = TRUE
    /\ cons = NoPass
    /\ legit = {}
    /\ torn = FALSE
    /\ q = << >>
    /\ points_m = << >>
    /\ link_mode = DEFAULT_LINK_MODE
    /\ edges = << >>
    /\ drawn = ""
    /\ knn_k = K_NEIGHBORS
    /\ knn_max = LINK_MAX_METERS \div 1000
    /\ ViewInit(200)
    /\ plottable = << >>
    /\ \E lat \in ProjArgs.lat, lon \in ProjArgs.lon, lat0 \in ProjArgs.lat0,
          lon0 \in ProjArgs.lon0 :
          proj = [NoProj EXCEPT !.args = <<lat, lon, lat0, lon0>>]

\* xy = latlon_to_xy_m(lat, lon, lat0, lon0)
Project ==
    /\ proj.pc = "idle"
    /\ proj' = [proj EXCEPT
            !.pc = "projected",
            !.xy = latlon_to_xy_m(proj.args[1], proj.args[2], proj.args[3],
                                  proj.args[4])]
    /\ UNCHANGED <<nodes, heap, origin, clock, fr, call, ncalls, fixed, legit,
                   aside, rest, knn_k, knn_max, zoom_mode, zoom_k, pan_x_m,
                   pan_y_m, pan_vx, pan_vy, ui, plottable>>

\* xy_m_to_latlon(xy[0], xy[1], lat0, lon0) on a result that is not None
Unproject ==
    /\ proj.pc = "projected"
    /\ proj.xy /= << >>
    /\ proj' = [proj EXCEPT
            !.pc = "back",
            !.back = xy_m_to_latlon(proj.xy[1], proj.xy[2], proj.args[3],
                                    proj.args[4])]
    /\ UNCHANGED <<nodes, heap, origin, clock, fr, call, ncalls, fixed, legit,
                   aside, rest, knn_k, knn_max, zoom_mode, zoom_k, pan_x_m,
                   pan_y_m, pan_vx, pan_vy, ui, plottable>>

NextProj == Project \/ Unproject

SpecProj == InitProj /\ [][NextProj]_vars

\* ------------------------------------------------------------------ claims
\* The sequential call in progress and the step that runs it.
Cur == fr["rx"]
Runs == Cur.pc = "called" /\ fr'["rx"].pc = "idle"
\* The record of nid before and after a step.
Old(nid) == Rec(nodes, heap, nid)
New(nid) == Rec(nodes', heap', nid)
\* The record a call starts from: the stored one, or the default of line 129.
Start(nid) ==
    IF DictHas(nodes, nid) THEN Old(nid)
    ELSE [name |-> nid, lat |-> None, lon |-> None, last |-> clock]

\* C1: the origin is set by the first upsert_node call that carries both lat
\* and lon, to exactly that fix (a call without a fix leaves it unset), and
\* once origin.set is true no later call changes origin.lat, origin.lon or
\* origin.set.
C1_OriginSetOnce ==
    [][/\ origin.set => origin' = origin
       /\ Runs =>
            IF ~origin.set /\ Cur.lat /= None /\ Cur.lon /= None
            THEN origin' = [lat |-> Cur.lat, lon |-> Cur.lon, set |-> TRUE]
            ELSE origin' = origin
       /\ ~Runs => origin' = origin]_vars

\* C1 witness: the origin is set and the last call stored a different fix.
C1_Witness ==
    /\ origin.set
    /\ call.op = "upsert_node" /\ call.hasLat /\ call.hasLon
    /\ DictHas(nodes, call.nid)
    /\ <<Rec(nodes, heap, call.nid).lat, Rec(nodes, heap, call.nid).lon>>
           /= <<origin.lat, origin.lon>>

\* C2: for an id that has a stored fix, an update that carries no lat/lon
\* leaves the stored lat and lon unchanged and sets lastSeen to the update's
\* timestamp (to now() when the update has none).
C2_PositionKept ==
    [][(/\ Runs /\ Cur.lat = None /\ Cur.lon = None
        /\ DictHas(nodes, Cur.nid) /\ HasFix(Old(Cur.nid)))
       => /\ DictHas(nodes', Cur.nid)
          /\ New(Cur.nid).lat = Old(Cur.nid).lat
          /\ New(Cur.nid).lon = Old(Cur.nid).lon
          /\ New(Cur.nid).last = (IF TruthyNum(Cur.ts) THEN Cur.ts ELSE clock)]_vars

\* C2 witness: a call without lat/lon was applied to an id that had a fix,
\* at a timestamp other than the clock's (the stream
\* [{X,t1}, {X,fix,t2}, {X,t3}]).
C2_Witness ==
    /\ call.op = "upsert_node" /\ ~call.hasLat /\ ~call.hasLon /\ call.hadFix
    /\ HasFix(Rec(nodes, heap, call.nid))
    /\ Rec(nodes, heap, call.nid).last /= clock

\* C3 as stated: name, lat and lon are merged each on its own: a field that
\* is present in the update is stored, a field that is absent is unchanged.
C3_FieldwiseMerge ==
    [][Runs =>
         /\ New(Cur.nid).name = (IF TruthyStr(Cur.name) THEN Cur.name ELSE Start(Cur.nid).name)
         /\ New(Cur.nid).lat = (IF Cur.lat /= None THEN Cur.lat ELSE Start(Cur.nid).lat)
         /\ New(Cur.nid).lon = (IF Cur.lon /= None THEN Cur.lon ELSE Start(Cur.nid).lon)]_vars

\* C3 amended: the name is merged on its own (a non-empty name is stored, an
\* absent or empty one leaves the stored name), and lat and lon are merged
\* as a pair: when both are present both are stored, and when either is
\* absent both stored coordinates are unchanged.
C3_PairwiseMerge ==
    [][Runs =>
         /\ New(Cur.nid).name = (IF TruthyStr(Cur.name) THEN Cur.name ELSE Start(Cur.nid).name)
         /\ IF Cur.lat /= None /\ Cur.lon /= None
            THEN New(Cur.nid).lat = Cur.lat /\ New(Cur.nid).lon = Cur.lon
            ELSE /\ New(Cur.nid).lat = Start(Cur.nid).lat
                 /\ New(Cur.nid).lon = Start(Cur.nid).lon]_vars

\* C3 witness: a call that carried a latitude without a longitude was applied
\* to an id that had a fix, and the fix is still stored.
C3_Witness ==
    /\ call.op = "upsert_node" /\ call.hasLat /\ ~call.hasLon /\ call.hadFix
    /\ HasFix(Rec(nodes, heap, call.nid))

\* No upsert_node call is in progress.
Quiescent == \A c \in Producers : fr[c].pc = "idle"

\* C6: upsert_node calls of the two producer threads are serialized: once
\* the calls have returned, an id for which a call carried a fix holds a fix
\* (run one after the other, a call without a position never erases one).
C6_NoLostFix ==
    Quiescent =>
        \A nid \in fixed : DictHas(nodes, nid) /\ HasFix(Rec(nodes, heap, nid))

\* C5: a pass of the render loop never reads a record mid-merge: the name,
\* lat, lon and lastSeen it has read of a record are together a value the
\* record held before or after an update, never a mix.
C5_NoTornRead == ~torn

\* C7: the render loop's passes over the node map run to completion: the
\* loop never dies in a pass.
C7_PassesComplete == cons.pc /= "crashed"

\* C4: the node map never loses an id: no step of a producer or of the
\* render loop removes a key of `nodes`, and the id of an update that was
\* applied is a key, whatever the node's age or the hide_stale setting.
C4_IdsOnlyGrow ==
    [][/\ DictKeys(nodes) \subseteq DictKeys(nodes')
       /\ call'.op = "upsert_node" => DictHas(nodes', call'.nid)]_vars

\* C4 witness: the render loop is at the end of the last pass of a tick
\* with hide_stale on, and both ids are keys although one record is stale.
C4_Witness ==
    /\ cons.pc = "next" /\ cons.pass = "all" /\ cons.i = cons.n
    /\ hide_stale
    /\ DictKeys(nodes) = Ids
    /\ \E nid \in Ids : cons.now - Rec(nodes, heap, nid).last > STALE_SEC

\* C8: a record with no node id is dropped by on_rx and by on_node_updated:
\* the handler leaves `nodes`, every record and the origin as they were.
C8_NoIdDropped ==
    [][(ncalls' = ncalls + 1 /\ call'.noId)
       => (nodes' = nodes /\ heap' = heap /\ origin' = origin)]_vars

\* The component of index i in the graph of the undirected pairs E.
RECURSIVE Component(_, _)
Component(S, E) ==
    IF S \cup {e[2] : e \in {x \in E : x[1] \in S}}
         \cup {e[1] : e \in {x \in E : x[2] \in S}} = S
    THEN S
    ELSE Component(S \cup {e[2] : e \in {x \in E : x[1] \in S}}
                     \cup {e[1] : e \in {x \in E : x[2] \in S}}, E)

\* The list t of index pairs is a spanning tree of the indices 0..n-1.
SpanningTree(t, n) ==
    /\ Len(t) = n - 1
    /\ \A m \in 1..Len(t) :
          /\ t[m][1] \in 0..n - 1 /\ t[m][2] \in 0..n - 1
          /\ t[m][1] /= t[m][2]
    /\ Component({0}, set(t)) = 0..n - 1
    /\ \A m \in 1..Len(t) :
          t[m][2] \notin Component({t[m][1]}, set(t) \ {t[m], <<t[m][2], t[m][1]>>})
          /\ \A l \in 1..Len(t) : l /= m => canon(t[l]) /= canon(t[m])

\* C9: for every list of n >= 1 points, duplicates included,
\* build_mst_edges returns n-1 edges between distinct valid indices that
\* form a connected acyclic graph over the n indices, and no edge for
\* n <= 1; the links drawn in mst mode are that tree.
C9_MstSpanningTree ==
    /\ Len(points_m) >= 1 => SpanningTree(build_mst_edges(points_m), Len(points_m))
    /\ Len(points_m) <= 1 => build_mst_edges(points_m) = << >>
    /\ drawn = "mst" => edges = build_mst_edges(points_m)

\* C9 witness: the tree of a list of four points, two of them the same
\* point, has been drawn.
C9_Witness ==
    /\ drawn = "mst" /\ Len(points_m) = 4 /\ Len(edges) = 3
    /\ \E a, b \in 1..4 : a /= b /\ points_m[a] = points_m[b]

\* An edge as an undirected pair.
Und(e) == {e[1], e[2]}

\* C10: the links built in mst_knn mode are, as undirected pairs, the MST
\* edges together with the KNN(k=2, LINK_MAX_METERS) edges, and no pair is
\* listed twice; so every MST edge is among them.
C10_HybridIsUnion ==
    drawn = "mst_knn" =>
        /\ {Und(e) : e \in set(edges)}
             = {Und(e) : e \in set(build_links(points_m, "mst"))}
               \cup {Und(e) : e \in set(build_links(points_m, "knn"))}
        /\ \A a, b \in 1..Len(edges) : a /= b => Und(edges[a]) /= Und(edges[b])

\* C10 witness: the hybrid links of a point list whose tree has an edge
\* that KNN leaves out (longer than LINK_MAX_METERS) and whose KNN has an
\* edge that is not in the tree.
C10_Witness ==
    /\ drawn = "mst_knn"
    /\ \E e \in set(build_links(points_m, "mst")) :
          Und(e) \notin {Und(f) : f \in set(build_links(points_m, "knn"))}
    /\ \E e \in set(build_links(points_m, "knn")) :
          Und(e) \notin {Und(f) : f \in set(build_links(points_m, "mst"))}
    /\ Len(edges) = 4

\* The squared distance of the points with indices i and j.
Dist2(i, j) ==
    _euclid2(At(points_m, i)[1], At(points_m, i)[2],
             At(points_m, j)[1], At(points_m, j)[2])

\* The distance of the points i and j is at most m.
Within(i, j, m) == m >= 0 /\ Dist2(i, j) <= m * m

\* C11: every edge <<a, b>> that build_knn_edges(points, k, maxDistance)
\* returns joins two distinct points whose distance is at most maxDistance,
\* has a < b, and is listed once.
C11_KnnEdgesBounded ==
    drawn = "knn_call" =>
        /\ \A m \in 1..Len(edges) :
              /\ edges[m][1] < edges[m][2]
              /\ edges[m][1] \in 0..Len(points_m) - 1
              /\ edges[m][2] \in 0..Len(points_m) - 1
              /\ Within(edges[m][1], edges[m][2], knn_max)
        /\ \A m, l \in 1..Len(edges) : m /= l => edges[m] /= edges[l]

\* The other points of i that come before j in i's order of neighbours:
\* squared distance ascending, ties by lower index.
Nearer(i, j) ==
    {l \in (0..Len(points_m) - 1) \ {i, j} :
        Dist2(i, l) < Dist2(i, j) \/ (Dist2(i, l) = Dist2(i, j) /\ l < j)}

\* j is one of the k nearest other points of i.
KNearest(i, j, k) == i /= j /\ Cardinality(Nearer(i, j)) < k

\* C12: build_knn_edges(points, k, maxDistance) returns exactly the pairs
\* <<min(i,j), max(i,j)>> for which j is one of the up to k nearest other
\* points of some point i and the distance of i and j is at most
\* maxDistance.
C12_KnnExact ==
    drawn = "knn_call" =>
        set(edges) =
            {e \in (0..Len(points_m) - 1) \X (0..Len(points_m) - 1) :
                /\ e[1] < e[2]
                /\ Within(e[1], e[2], knn_max)
                /\ KNearest(e[1], e[2], knn_k) \/ KNearest(e[2], e[1], knn_k)}

\* C13: build_knn_edges returns no edge when k = 0 or when maxDistance is
\* zero or negative.
C13_KnnInvalidConfig ==
    (drawn = "knn_call" /\ (knn_k = 0 \/ knn_max <= 0)) => edges = << >>

\* The step is one of handler h (every handler of the view leaves its name
\* in ui.last and counts in ui).
Did(h) == ui' /= ui /\ ui'.last = h

\* C14: the zoom mode starts in Fit; every zoom step (keys + and -) and
\* every wheel zoom at a point outside the side panel sets it to Manual;
\* Manual stays Manual under every step but a reset (key 0), and the mode
\* changes under no step but those; drag panning, direction keys and the
\* per-tick velocity integration change neither zoom_mode nor zoom_k.
C14_ZoomModeMachine ==
    /\ zoom_mode = "fit"
    /\ [][/\ zoom_mode' \in {"fit", "manual"}
          /\ (Did("K_EQUALS") \/ Did("K_MINUS") \/ Did("zoom"))
                => zoom_mode' = "manual"
          /\ (zoom_mode = "manual" /\ ~Did("K_0")) => zoom_mode' = "manual"
          /\ Did("K_0") => zoom_mode' = "fit"
          /\ (\/ Did("pan") \/ Did("wasd") \/ Did("scale") \/ Did("side")
              \/ Did("K_d") \/ Did("K_s") \/ Did("K_PAGEDOWN") \/ Did("KEYUP")
              \/ Did("BUTTON1") \/ Did("BUTTON45") \/ Did("BUTTONUP")
              \/ Did("MOTION") \/ Did("WHEEL") \/ ui' = ui)
                => UNCHANGED <<zoom_mode, zoom_k>>]_vars

\* A drag pan was applied in Manual mode, with a zoom factor other than 1.
C14_Witness ==
    zoom_mode = "manual" /\ zoom_k /= <<1, 1>> /\ ui.last = "pan"

\* C15: a reset (key 0) yields zoom_mode = "fit", zoom_k = 1, pan = (0, 0)
\* and velocity (0, 0), and changes nothing else: not link_mode, hide_stale,
\* nodes or origin, and none of main's locals (keys held, drag, posted
\* events, side scroll).
C15_ResetView ==
    [][Did("K_0") =>
          /\ zoom_mode' = "fit"
          /\ zoom_k' = <<1, 1>>
          /\ pan_x_m' = <<0, 1>> /\ pan_y_m' = <<0, 1>>
          /\ pan_vx' = <<0, 1>> /\ pan_vy' = <<0, 1>>
          /\ UNCHANGED <<link_mode, hide_stale, nodes, heap, origin, q,
                         points_m, edges>>
          /\ ui' = [ui EXCEPT !.n = ui'.n, !.last = ui'.last, !.was = ui'.was,
                             !.got = ui'.got]]_vars

\* A reset of a view that was in Manual mode with a zoom factor other than
\* 1, panned and moving, with the stale filter off and another link mode.
C15_Witness ==
    /\ ui.last = "K_0"
    /\ ui.was[1] = "manual"
    /\ ui.was[2] /= <<1, 1>>
    /\ ui.was[3] /= <<0, 1>>
    /\ ui.was[5] /= <<0, 1>>
    /\ zoom_mode = "fit"
    /\ pan_vx = <<0, 1>>
    /\ ~hide_stale
    /\ link_mode /= DEFAULT_LINK_MODE

\* C16: for a wheel zoom at a screen point P of the plot, in either
\* direction and from any view (Fit or Manual, any pan, any zoom factor, the
\* scale at its floor or not), the world point that to_screen maps to P
\* before the step is mapped by to_screen to P again after the step, within
\* 1 pixel in x and in y.
C16_ZoomAnchor ==
    [][Did("zoom") =>
          \A P \in {Head(ui.posted).pos} :
          \A wx \in {RAdd(RDiv(<<P[1] - layout.cx, 1>>, ui.scale), pan_x_m)},
             wy \in {RAdd(RDiv(<<layout.cy - P[2], 1>>, ui.scale), pan_y_m)} :
             /\ to_screen(<<pan_x_m, pan_y_m, ui.scale>>, wx, wy) = P
             /\ \A after \in {to_screen(<<pan_x_m', pan_y_m', ui'.scale>>, wx, wy)} :
                   /\ after[1] - P[1] \in -1..1
                   /\ after[2] - P[2] \in -1..1]_vars

\* A wheel zoom off the plot's centre in Manual mode that left the scale at
\* its floor and the view panned.
C16_Witness ==
    /\ ui.last = "zoom"
    /\ ui.scale = <<1, 10000>>
    /\ zoom_k[1] < zoom_k[2]
    /\ pan_x_m /= <<0, 1>>
    /\ pan_y_m /= <<0, 1>>

\* The ids a tick is to plot: the origin is set, the record has a fix, and
\* the stale filter is off or the record's age is at most STALE_SEC.
PlotIds ==
    {nid \in DictKeys(nodes) :
        /\ origin.set
        /\ HasFix(Rec(nodes, heap, nid))
        /\ (~hide_stale \/ clock - Rec(nodes, heap, nid).last <= STALE_SEC)}

\* C17: the plottable list of a tick holds a node exactly when the origin
\* is set, the node has a fix, and hide_stale is off or the node's age is
\* at most 300 s, each such node once; the tick completes in every state
\* (no fix, no origin).
C17_PlottableMembership ==
    [][Did("plottable") =>
          /\ {plottable'[i][1] : i \in 1..Len(plottable')} = PlotIds
          /\ Len(plottable') = Cardinality(PlotIds)
          /\ \A i \in 1..Len(plottable') :
                plottable'[i][5] = clock - Rec(nodes, heap, plottable'[i][1]).last]_vars

\* A tick with the filter on left out a node of age 400 that has a fix and
\* a node without a fix, and kept a fresh node.
C17_Witness ==
    /\ ui.last = "plottable"
    /\ hide_stale
    /\ origin.set
    /\ {plottable[i][1] : i \in 1..Len(plottable)} = PlotIds
    /\ plottable /= << >>
    /\ \E nid \in DictKeys(nodes) :
          /\ HasFix(Rec(nodes, heap, nid))
          /\ clock - Rec(nodes, heap, nid).last = 400
          /\ nid \notin PlotIds

\* Python's order of the names of the model (str comparison).
NameRank(name) ==
    CASE name = "A" -> 1 [] name = "B" -> 2 [] name = "n1" -> 3 [] OTHER -> 0

\* C18: the plottable list of a tick is in ascending order of age, and two
\* entries of equal age are in ascending order of name, whatever the order
\* of insertion into nodes.
C18_PlottableOrder ==
    [][Did("plottable") =>
          \A i, j \in 1..Len(plottable') :
              i < j =>
                 /\ plottable'[i][5] <= plottable'[j][5]
                 /\ plottable'[i][5] = plottable'[j][5]
                       => NameRank(plottable'[i][2]) <= NameRank(plottable'[j][2])]_vars

\* C20: latlon_to_xy_m returns None exactly when one of its four arguments
\* is None, and for arguments that are all present xy_m_to_latlon of its
\* result, with the same origin, is (lat, lon) again.
C20_ProjectionRoundTrip ==
    /\ proj.pc \in {"projected", "back"}
          => (proj.xy = << >> <=> None \in {proj.args[i] : i \in 1..4})
    /\ proj.pc = "back"
          => proj.back = <<<<proj.args[1], 1>>, <<proj.args[2], 1>>>>

\* A round trip off the origin in both coordinates, at an origin latitude
\* whose cosine is not 1.
C20_Witness ==
    /\ proj.pc = "back"
    /\ proj.args[3] = 60
    /\ proj.args[1] /= proj.args[3]
    /\ proj.args[2] /= proj.args[4]
    /\ proj.xy[1] /= <<0, 1>>

\* C19: in every tick the drain loop of lines 396-399 terminates and the
\* tick goes on, also when the reader thread keeps putting entries while
\* the loop runs.
C19_DrainTerminates == (ui.pc = "drain") ~> (ui.pc = "events")

\* The step is an on_rx whose packet has a position with both keys and
\* whose upsert_node raised: line 188 was not reached, nothing was put.
Malformed ==
    /\ ncalls' = ncalls + 1
    /\ call'.op = "on_rx"
    /\ call'.hasLat /\ call'.hasLon
    /\ q' = q

\* C21: an on_rx whose latitude or longitude float() rejects leaves the
\* store as it was: no record is added, no field of a stored record (name,
\* lat, lon, last) changes, and origin is unchanged.  (That no exception
\* leaves on_rx is in the model: the step completes.)
C21_MalformedDropped ==
    [][Malformed => UNCHANGED <<nodes, heap, origin>>]_vars

\* C22: under two concurrent producers the origin is written at most once:
\* once origin.set is true, no step of either context changes lat, lon or
\* set, so no reader sees a set origin whose value changes later.
C22_OriginWrittenOnce ==
    [][origin.set => origin' = origin]_vars

\* The points attached before the m-th edge of the tree t: point 0 and the
\* first components of the edges before it.
Attached(t, m) == {0} \cup {t[l][1] : l \in 1..m - 1}

\* The squared distance of point j to the nearest point of T.
NearTree(T, j) ==
    CHOOSE d \in {Dist2(j, i) : i \in T} : \A e \in {Dist2(j, i) : i \in T} : d <= e

\* The tree edge t[m] lies on the tree path that joins i and j.
OnPath(t, m, i, j) ==
    j \notin Component({i}, set(t) \ {t[m], <<t[m][2], t[m][1]>>})

\* C23: the tree of build_mst_edges is a minimum spanning tree: it spans
\* the points, and no two points are strictly closer than a tree edge on
\* the tree path that joins them.  Each round attaches a point nearest to
\* the tree so far and, among equally near ones, the one of lowest index.
C23_MstMinimal ==
    LET t == build_mst_edges(points_m)
        n == Len(points_m)
    IN  /\ n >= 1 => SpanningTree(t, n)
        /\ \A m \in 1..Len(t) : \A i, j \in 0..n - 1 :
              OnPath(t, m, i, j) => Dist2(t[m][1], t[m][2]) <= Dist2(i, j)
        /\ \A m \in 1..Len(t) : \A j \in (0..n - 1) \ Attached(t, m) :
              /\ NearTree(Attached(t, m), t[m][1]) <= NearTree(Attached(t, m), j)
              /\ NearTree(Attached(t, m), t[m][1]) = NearTree(Attached(t, m), j)
                    => t[m][1] <= j
        /\ drawn = "mst" => edges = t

\* C23 witness: the tree of four points has been drawn, in one round two
\* points were equally near the tree, and one edge does not start at
\* point 0 although its point is strictly farther from point 0 than from
\* its parent (the relaxation of lines 286-291 decided it).
C23_Witness ==
    LET t == build_mst_edges(points_m)
    IN  /\ drawn = "mst" /\ Len(points_m) = 4 /\ Len(edges) = 3
        /\ \E m \in 1..Len(t) : \E j \in (0..3) \ Attached(t, m) :
              /\ j /= t[m][1]
              /\ NearTree(Attached(t, m), j) = NearTree(Attached(t, m), t[m][1])
        /\ \E m \in 1..Len(t) :
              t[m][2] /= 0 /\ Dist2(t[m][1], t[m][2]) < Dist2(t[m][1], 0)

\* The packets that carry no name: `from` is not a dict with a longName.
Nameless == {pkt \in Packets : rx_name(pkt) = NoName}

\* C24: an on_rx of a packet that carries no name, for a node that has a
\* record, leaves the stored name of that record as it was.
C24_AbsentNameKeepsName ==
    [][ncalls' = ncalls + 1 =>
          \A pkt \in Nameless :
              (DictHas(nodes, rx_nid(pkt)) /\ on_rx(pkt))
                  => Rec(nodes', heap', rx_nid(pkt)).name
                        = Rec(nodes, heap, rx_nid(pkt)).name]_vars

\* The pixel pos is outside the side panel: a wheel event there zooms.
InPlot(pos) ==
    ~(/\ layout.side.left <= pos[1]
      /\ pos[1] < layout.side.left + layout.side.width
      /\ layout.side.top <= pos[2]
      /\ pos[2] < layout.side.top + layout.side.height)

\* Among the commands g of a tick, key 0 came after a wheel zoom in the
\* plot, and no zoom command came after that key 0.
ResetAfterZoom(g) ==
    \E w, r \in 1..Len(g) :
        /\ w < r
        /\ g[w].type = "WHEEL" /\ InPlot(g[w].pos)
        /\ g[r].key = "K_0"
        /\ \A l \in r + 1..Len(g) :
              g[l].key = "K_0" \/ (g[l].type = "WHEEL" /\ ~InPlot(g[l].pos))

\* C25: when, among the events of one tick, key 0 is received after a
\* wheel zoom in the plot (and no zoom after it), the tick ends in fit
\* mode with zoom_k = 1.
C25_ResetAfterZoomWins ==
    [][(Did("wasd") /\ ResetAfterZoom(ui.got))
          => (zoom_mode' = "fit" /\ zoom_k' = <<1, 1>>)]_vars

====
